---- MODULE Spec2Model ----
(***************************************************************************)
(* DOS-level 1541 drive emulation of murmc64: the disk-image drive         *)
(* (src/src/rp2350/d64_drive.c) behind the IEC bus controller              *)
(* (src/src/rp2350/iec_dos.c).                                             *)
(*                                                                         *)
(* The drive is modelled on a scaled-down D64 geometry: MaxTrack tracks of *)
(* a few sectors each instead of 35 tracks of 17..21 sectors, BLOCK bytes  *)
(* per sector instead of 256, DirEntries directory entries per directory   *)
(* block instead of 8.  Every operation of the drive is an operator that   *)
(* takes the drive (a record holding struct iec_drive together with the    *)
(* image file it has open) and returns the drive after the call, so that   *)
(* an action is one whole call of the public API.                          *)
(***************************************************************************)
EXTENDS Integers, Sequences, FiniteSets, TLC

(***************************************************************************)
(* Bounds of the model (scaled geometry and input sizes).                  *)
(***************************************************************************)
\* tracks the BAM allocator uses (35 in d64_drive.c)
MaxTrack == 3
\* sectors on a track up to the directory track (21..19 in num_sectors[])
SecPerTrack == 3
\* bytes of a sector (256 in the source), 2 of them the link
BLOCK == 4
\* directory entries of a directory block (8 in the source)
DirEntries == 2
\* data bytes are 1..MaxByte
MaxByte == 2

(***************************************************************************)
(* Program constants.                                                      *)
(***************************************************************************)
NUM_BUFFERS == 4
MAX_CHANNELS == 18
ST_OK == 0
ST_READ_TIMEOUT == 2
ST_TIMEOUT == 3
ST_EOF == 64
ST_NOTPRESENT == 128
FTYPE_DEL == 0
FTYPE_SEQ == 1
FTYPE_PRG == 2
FTYPE_USR == 3
FTYPE_REL == 4
\* a carriage return, and the shifted space that pads file names
CR == 13
PAD == 160
\* length of a directory entry's name field
NAME_LEN == 16
\* characters the drive looks for in names and commands
ChStar == 42
ChQuest == 63
ChColon == 58
ChComma == 44
ChMinus == 45
ChAt == 64
ChDollar == 36
ChHash == 35
Ch0 == 48
Ch3 == 51
ChA == 65
ChB == 66
ChC == 67
ChD == 68
ChI == 73
ChJ == 74
ChL == 76
ChM == 77
ChN == 78
ChP == 80
ChR == 82
ChS == 83
ChU == 85
ChV == 86
ChW == 87

\* the directory track lies in the middle of the disk (18 of 35)
DIR_TRACK == (MaxTrack + 1) \div 2
\* scaled interleaves (10 and 3 on tracks of 21 and 19 sectors)
DATA_INTERLEAVE == SecPerTrack \div 2
DIR_INTERLEAVE == 1 + SecPerTrack \div 4

Tracks == 1..MaxTrack
\* the track beyond the BAM's range that a 40-track image has (36..40 of 40)
ExtTrack == MaxTrack + 1
\* num_sectors[]: the zones get shorter towards the higher tracks; the table
\* covers the tracks of a 40-track image whatever image is mounted
num_sectors(track) ==
  IF track \in 1..DIR_TRACK THEN SecPerTrack
  ELSE IF track \in (DIR_TRACK + 1)..ExtTrack THEN SecPerTrack - 1
  ELSE 0

Buffers == 0..(NUM_BUFFERS - 1)
Channels == 0..(MAX_CHANNELS - 1)
NULLBUF == -1
\* channel.buf pointing at the directory listing buffer drive->dir_buf
DIRBUF == NUM_BUFFERS
\* the last byte offset of a sector (0xff in the source)
LAST == BLOCK - 1
\* a byte of a sector that holds no file data (BAM or directory bytes)
RAW == 255

(***************************************************************************)
(* d64_offset_from_ts: a track/sector pair has an offset in the image iff  *)
(* it is in range; the model addresses sectors by the pair itself.         *)
(***************************************************************************)
ValidTS(d, track, sector) ==
  /\ track >= 1 /\ track <= d.num_tracks
  /\ sector >= 0 /\ sector < num_sectors(track)

AllTS == {ts \in Tracks \X (0..(SecPerTrack - 1)) : ts[2] < num_sectors(ts[1])}
\* the sectors of a 40-track image
ExtTS == {ts \in (1..ExtTrack) \X (0..(SecPerTrack - 1)) : ts[2] < num_sectors(ts[1])}

(***************************************************************************)
(* Sectors.  A sector is [t, s, k, v]: bytes 0 and 1 (the link), and the   *)
(* other bytes, either data bytes (k = "data", v[i] is byte i+1) or the    *)
(* entries of a directory block (k = "dir", v[i] is entry i-1).            *)
(***************************************************************************)
ZeroData == [i \in 1..(BLOCK - 2) |-> 0]
ZeroEntry == [type |-> 0, track |-> 0, sector |-> 0, name |-> <<>>,
              side_track |-> 0, side_sector |-> 0,
              ovr_track |-> 0, ovr_sector |-> 0, num_blocks |-> 0]
ZeroDir == [i \in 1..DirEntries |-> ZeroEntry]
DataBlock(t, s, v) == [t |-> t, s |-> s, k |-> "data", v |-> v]
DirBlock(t, s, v) == [t |-> t, s |-> s, k |-> "dir", v |-> v]

\* A sector read into drive->dir is looked at as directory entries whatever it
\* holds; the model keeps the entries of a directory block only, and records
\* in d.mixed that a sector of another kind was taken for one.
AsDir(blk) == IF blk.k = "dir" THEN blk ELSE DirBlock(blk.t, blk.s, ZeroDir)
LoadDir(d, blk) == [d EXCEPT !.dir = AsDir(blk), !.mixed = @ \/ blk.k # "dir"]

\* bits of the type byte
TypeClosed(type) == (type \div 128) % 2 = 1
TypeLocked(type) == (type \div 64) % 2 = 1

(***************************************************************************)
(* d64_drive_set_error                                                     *)
(***************************************************************************)
\* the LED rule without its last branch: a flashing LED stays flashing
ErrorLed_keeps_flashing(d, error) ==
  IF error # "OK" /\ error # "SCRATCHED"
  THEN IF error = "STARTUP" THEN "OFF" ELSE "ERROR_FLASH"
  ELSE d.led

ErrorLed(d, error) ==
  IF error # "OK" /\ error # "SCRATCHED"
  THEN (IF error = "STARTUP" THEN "OFF" ELSE "ERROR_FLASH")
  ELSE (IF d.led = "ERROR_FLASH" THEN "OFF" ELSE d.led)

d64_drive_set_error(d, error, track, sector) ==
  [d EXCEPT !.current_error = error, !.error_track = track,
            !.error_sector = sector, !.error_read = 0,
            !.led = ErrorLed(d, error)]

(***************************************************************************)
(* read_sector / write_sector: results are [d, ok, blk] and [d, ok].       *)
(* The host file is reliable: a seek or transfer inside the image succeeds.*)
(***************************************************************************)
read_sector(d, track, sector) ==
  IF ~d.file_open
  THEN [d |-> d64_drive_set_error(d, "NOTREADY", track, sector), ok |-> FALSE]
  ELSE IF ~ValidTS(d, track, sector)
  THEN [d |-> d64_drive_set_error(d, "ILLEGALTS", track, sector), ok |-> FALSE]
  ELSE [d |-> d, ok |-> TRUE, blk |-> d.img[<<track, sector>>]]

write_sector(d, track, sector, blk) ==
  IF ~d.file_open
  THEN [d |-> d64_drive_set_error(d, "NOTREADY", track, sector), ok |-> FALSE]
  ELSE IF d.write_protected
  THEN [d |-> d64_drive_set_error(d, "WRITEPROTECT", track, sector), ok |-> FALSE]
  ELSE IF ~ValidTS(d, track, sector)
  THEN [d |-> d64_drive_set_error(d, "ILLEGALTS", track, sector), ok |-> FALSE]
  ELSE [d |-> [d EXCEPT !.img[<<track, sector>>] = blk], ok |-> TRUE]

(***************************************************************************)
(* BAM mirror: bam[track] = [cnt, free], the free-block counter byte and   *)
(* the set of sectors whose bitmap bit is set.                             *)
(***************************************************************************)
is_block_free(d, track, sector) ==
  track \in DOMAIN d.bam /\ sector \in d.bam[track].free

\* bam[0].cnt is the byte before the first counter: the BAM sector's link
\* track, so that num_free_blocks(0) reads a non-zero byte of a loaded BAM
num_free_blocks(d, track) ==
  IF track \in DOMAIN d.bam THEN d.bam[track].cnt ELSE 0

BamRange(track, sector) ==
  /\ track >= 1 /\ track <= MaxTrack
  /\ sector >= 0 /\ sector < num_sectors(track)

\* alloc_block without the p[0]-- of the source
alloc_block_keeps_count(d, track, sector) ==
  IF ~BamRange(track, sector) THEN [d |-> d, r |-> "ILLEGALTS"]
  ELSE IF sector \in d.bam[track].free
  THEN [d |-> [d EXCEPT !.bam[track].free = @ \ {sector},
                        !.bam_dirty = TRUE],
        r |-> "OK"]
  ELSE [d |-> d, r |-> "NOBLOCK"]

\* result [d, r]
alloc_block(d, track, sector) ==
  IF ~BamRange(track, sector) THEN [d |-> d, r |-> "ILLEGALTS"]
  ELSE IF sector \in d.bam[track].free
  THEN [d |-> [d EXCEPT !.bam[track].free = @ \ {sector},
                        !.bam[track].cnt = (@ + 255) % 256,
                        !.bam_dirty = TRUE],
        r |-> "OK"]
  ELSE [d |-> d, r |-> "NOBLOCK"]

\* free_block that sets the dirty flag whether or not the bit changes
free_block_always_dirty(d, track, sector) ==
  IF ~BamRange(track, sector) THEN [d |-> d, r |-> "ILLEGALTS"]
  ELSE IF sector \notin d.bam[track].free
  THEN [d |-> [d EXCEPT !.bam[track].free = @ \cup {sector},
                        !.bam[track].cnt = (@ + 1) % 256,
                        !.bam_dirty = TRUE],
        r |-> "OK"]
  ELSE [d |-> [d EXCEPT !.bam_dirty = TRUE], r |-> "OK"]

free_block(d, track, sector) ==
  IF ~BamRange(track, sector) THEN [d |-> d, r |-> "ILLEGALTS"]
  ELSE IF sector \notin d.bam[track].free
  THEN [d |-> [d EXCEPT !.bam[track].free = @ \cup {sector},
                        !.bam[track].cnt = (@ + 1) % 256,
                        !.bam_dirty = TRUE],
        r |-> "OK"]
  ELSE [d |-> d, r |-> "OK"]

(***************************************************************************)
(* free_block_chain.  The loop ends when free_block refuses the link (a    *)
(* track 0 or out-of-range link) or a read fails.  A chain whose links     *)
(* form a cycle keeps the loop running for ever: after ChainFuel rounds    *)
(* every block on the way is free and the walk repeats, which the model    *)
(* records as d.hung.  Result [d, ok].                                     *)
(***************************************************************************)
ChainFuel == 2 * Cardinality(AllTS) + 2

RECURSIVE free_chain_loop(_, _, _, _)
free_chain_loop(d, track, sector, fuel) ==
  LET AfterRead(rd) ==
        IF ~rd.ok THEN [d |-> rd.d, ok |-> FALSE]
        ELSE free_chain_loop(rd.d, rd.blk.t, rd.blk.s, fuel - 1)
      AfterFree(f) ==
        IF f.r # "OK" THEN [d |-> f.d, ok |-> TRUE]
        ELSE AfterRead(read_sector(f.d, track, sector))
  IN IF fuel = 0 THEN [d |-> [d EXCEPT !.hung = TRUE], ok |-> FALSE]
     ELSE AfterFree(free_block(d, track, sector))

free_block_chain(d, track, sector) ==
  free_chain_loop(d, track, sector, ChainFuel)

(***************************************************************************)
(* alloc_next_block.  Result [d, ok, track, sector]; track and sector are  *)
(* the caller's values when the call fails.                                *)
(***************************************************************************)
\* the search that gives up at the first end of the disk it comes to
RECURSIVE find_track_one_side(_, _, _, _)
find_track_one_side(d, t, s, side_changed) ==
  IF num_free_blocks(d, t) # 0 THEN [ok |-> TRUE, t |-> t, s |-> s]
  ELSE IF t = DIR_TRACK THEN [ok |-> FALSE, t |-> t, s |-> s]
  ELSE IF t > DIR_TRACK
  THEN IF t + 1 > MaxTrack THEN [ok |-> FALSE, t |-> t, s |-> s]
       ELSE find_track_one_side(d, t + 1, s, side_changed)
  ELSE IF t - 1 < 1 THEN [ok |-> FALSE, t |-> t, s |-> s]
       ELSE find_track_one_side(d, t - 1, s, side_changed)

\* find_track with the other side of the disk entered at the directory track
RECURSIVE find_track_over_dir(_, _, _, _)
find_track_over_dir(d, t, s, side_changed) ==
  IF num_free_blocks(d, t) # 0 THEN [ok |-> TRUE, t |-> t, s |-> s]
  ELSE IF t = DIR_TRACK /\ ~side_changed THEN [ok |-> FALSE, t |-> t, s |-> s]
  ELSE IF t > DIR_TRACK
  THEN IF t + 1 > MaxTrack
       THEN IF side_changed THEN [ok |-> FALSE, t |-> t, s |-> s]
            ELSE find_track_over_dir(d, DIR_TRACK, 0, TRUE)
       ELSE find_track_over_dir(d, t + 1, s, side_changed)
  ELSE IF t - 1 < 1
       THEN IF side_changed THEN [ok |-> FALSE, t |-> t, s |-> s]
            ELSE find_track_over_dir(d, DIR_TRACK, 0, TRUE)
       ELSE find_track_over_dir(d, t - 1, s, side_changed)

\* the while loop that looks for a track with free blocks: [ok, t, s]
RECURSIVE find_track(_, _, _, _)
find_track(d, t, s, side_changed) ==
  IF num_free_blocks(d, t) # 0 THEN [ok |-> TRUE, t |-> t, s |-> s]
  ELSE IF t = DIR_TRACK THEN [ok |-> FALSE, t |-> t, s |-> s]
  ELSE IF t > DIR_TRACK
  THEN IF t + 1 > MaxTrack
       THEN IF side_changed THEN [ok |-> FALSE, t |-> t, s |-> s]
            ELSE find_track(d, DIR_TRACK - 1, 0, TRUE)
       ELSE find_track(d, t + 1, s, side_changed)
  ELSE IF t - 1 < 1
       THEN IF side_changed THEN [ok |-> FALSE, t |-> t, s |-> s]
            ELSE find_track(d, DIR_TRACK + 1, 0, TRUE)
       ELSE find_track(d, t - 1, s, side_changed)

\* s + interleave reduced modulo the number of sectors
first_probe_modulo(s, interleave, num) ==
  IF num = 0 THEN s + interleave ELSE (s + interleave) % num

\* s + interleave, wrapped into the track
first_probe(s, interleave, num) ==
  LET s1 == s + interleave IN
  IF s1 >= num THEN (IF s1 - num # 0 THEN s1 - num - 1 ELSE 0) ELSE s1

\* the while loop that looks for a free sector: [s, count]
RECURSIVE probe(_, _, _, _, _)
probe(d, t, s, count, num) ==
  IF ~is_block_free(d, t, s) /\ count < num
  THEN probe(d, t, (IF s + 1 >= num THEN 0 ELSE s + 1), count + 1, num)
  ELSE [s |-> s, count |-> count]

alloc_next_block(d, track, sector, interleave) ==
  LET Probed(ft, num, pr) ==
        IF pr.count >= num
        THEN [d |-> d64_drive_set_error(d, "DIRERROR", ft.t, pr.s),
              ok |-> FALSE, track |-> track, sector |-> sector]
        ELSE [d |-> alloc_block(d, ft.t, pr.s).d, ok |-> TRUE,
              track |-> ft.t, sector |-> pr.s]
      OnTrack(ft, num) ==
        Probed(ft, num,
               probe(d, ft.t, first_probe(ft.s, interleave, num), 0, num))
      Found(ft) ==
        IF ~ft.ok
        THEN [d |-> d64_drive_set_error(d, "DISKFULL", 0, 0), ok |-> FALSE,
              track |-> track, sector |-> sector]
        ELSE OnTrack(ft, num_sectors(ft.t))
  IN Found(find_track(d, track, sector, FALSE))

(***************************************************************************)
(* match: pattern p against the name field n of a directory entry.  The    *)
(* model keeps a name without its padding: byte i of the field is n[i] up  *)
(* to Len(n) and the pad byte after it.                                    *)
(***************************************************************************)
NameAt(n, i) == IF i <= Len(n) THEN n[i] ELSE PAD

RECURSIVE match_loop(_, _, _, _)
match_loop(p, n, c, p_len) ==
  IF c >= p_len THEN (c = NAME_LEN \/ NameAt(n, c + 1) = PAD)
  ELSE IF p[c + 1] = ChStar THEN TRUE
  ELSE IF p[c + 1] # NameAt(n, c + 1) /\ p[c + 1] # ChQuest THEN FALSE
  ELSE match_loop(p, n, c + 1, p_len)

match(p, n) ==
  match_loop(p, n, 0, IF Len(p) > NAME_LEN THEN NAME_LEN ELSE Len(p))

(***************************************************************************)
(* find_file (find_first_file is cont = FALSE, find_next_file cont = TRUE).*)
(* Result [d, found, dir_track, dir_sector, entry]; the block under search *)
(* is drive->dir.                                                          *)
(***************************************************************************)
FIRST_DIR_SECTOR == 1

RECURSIVE find_file_loop(_, _, _, _, _, _)
find_file_loop(d, pattern, dir_track, dir_sector, entry0, num_dir_blocks) ==
  LET Miss(d1, t, s, e) ==
        [go |-> FALSE, d |-> d1, dir_track |-> t, dir_sector |-> s,
         entry |-> e, n |-> num_dir_blocks]
      \* the entry the loop looks at next, after reading the next block if any
      Loaded(rd) ==
        IF ~rd.ok THEN Miss(rd.d, d.dir.t, d.dir.s, entry0 + 1)
        ELSE [go |-> TRUE, d |-> LoadDir(rd.d, rd.blk), dir_track |-> d.dir.t,
              dir_sector |-> d.dir.s, entry |-> 0, n |-> num_dir_blocks + 1]
      Test(st, de) ==
        IF ~st.go \/ (de.type % 64 # FTYPE_DEL /\ match(pattern, de.name))
        THEN [d |-> st.d, found |-> st.go, dir_track |-> st.dir_track,
              dir_sector |-> st.dir_sector, entry |-> st.entry]
        ELSE find_file_loop(st.d, pattern, st.dir_track, st.dir_sector,
                            st.entry, st.n)
      Step(st) == Test(st, st.d.dir.v[IF st.go THEN st.entry + 1 ELSE 1])
  IN IF num_dir_blocks >= num_sectors(DIR_TRACK)
     THEN [d |-> d, found |-> FALSE, dir_track |-> dir_track,
           dir_sector |-> dir_sector, entry |-> entry0]
     ELSE Step(IF entry0 + 1 >= DirEntries
               THEN IF d.dir.t = 0
                    THEN Miss(d, dir_track, dir_sector, entry0 + 1)
                    ELSE Loaded(read_sector(d, d.dir.t, d.dir.s))
               ELSE [go |-> TRUE, d |-> d, dir_track |-> dir_track,
                     dir_sector |-> dir_sector, entry |-> entry0 + 1,
                     n |-> num_dir_blocks])

find_first_file(d, pattern) ==
  find_file_loop([d EXCEPT !.dir.t = DIR_TRACK, !.dir.s = FIRST_DIR_SECTOR],
                 pattern, 0, 0, DirEntries, 0)

find_next_file(d, pattern, dir_track, dir_sector, entry) ==
  find_file_loop(d, pattern, dir_track, dir_sector, entry, 0)

(***************************************************************************)
(* alloc_buffer / free_buffer.  alloc_buffer gives [d, buf], buf = -1 when *)
(* no buffer is free.                                                      *)
(***************************************************************************)
\* alloc_buffer that hands out the last buffer without looking at the pool
alloc_buffer_unchecked(d, want) ==
  IF want = -1
  THEN [d |-> [d EXCEPT !.buf_free[NUM_BUFFERS - 1] = FALSE],
        buf |-> NUM_BUFFERS - 1]
  ELSE IF want < NUM_BUFFERS /\ d.buf_free[want]
       THEN [d |-> [d EXCEPT !.buf_free[want] = FALSE], buf |-> want]
       ELSE [d |-> d, buf |-> -1]

alloc_buffer(d, want) ==
  IF want = -1
  THEN IF \E i \in Buffers : d.buf_free[i]
       THEN LET i == CHOOSE i \in Buffers :
                       d.buf_free[i] /\ \A j \in Buffers : d.buf_free[j] => j <= i
            IN [d |-> [d EXCEPT !.buf_free[i] = FALSE], buf |-> i]
       ELSE [d |-> d, buf |-> -1]
  ELSE IF want < NUM_BUFFERS /\ d.buf_free[want]
       THEN [d |-> [d EXCEPT !.buf_free[want] = FALSE], buf |-> want]
       ELSE [d |-> d, buf |-> -1]

free_buffer(d, buf) ==
  IF buf >= 0 /\ buf < NUM_BUFFERS THEN [d EXCEPT !.buf_free[buf] = TRUE] ELSE d

(***************************************************************************)
(* alloc_dir_entry.  Result [d, ok, track, sector, entry]: the three out   *)
(* parameters are written as the search goes, also when the call fails.    *)
(***************************************************************************)
FirstFreeEntry(blk) ==
  IF \E e \in 1..DirEntries : blk.v[e].type = 0
  THEN (CHOOSE e \in 1..DirEntries :
          blk.v[e].type = 0 /\ \A f \in 1..(e - 1) : blk.v[f].type # 0) - 1
  ELSE DirEntries

\* the while loop over the directory chain: [d, r, track, sector, entry]
RECURSIVE dir_scan(_, _, _, _, _)
dir_scan(d, track, sector, entry, fuel) ==
  LET Scanned(rd, e) ==
        IF e < DirEntries
        THEN [d |-> LoadDir(rd.d, rd.blk), r |-> "found", track |-> d.dir.t,
              sector |-> d.dir.s, entry |-> e]
        ELSE dir_scan(LoadDir(rd.d, rd.blk), d.dir.t, d.dir.s, e, fuel - 1)
      AfterRead(rd) ==
        IF ~rd.ok
        THEN [d |-> rd.d, r |-> "fail", track |-> d.dir.t, sector |-> d.dir.s,
              entry |-> entry]
        ELSE Scanned(rd, FirstFreeEntry(AsDir(rd.blk)))
  IN IF d.dir.t = 0
     THEN [d |-> d, r |-> "end", track |-> track, sector |-> sector,
           entry |-> entry]
     ELSE IF fuel = 0
     THEN [d |-> [d EXCEPT !.hung = TRUE], r |-> "fail", track |-> track,
           sector |-> sector, entry |-> entry]
     ELSE AfterRead(read_sector(d, d.dir.t, d.dir.s))

alloc_dir_entry(d, track0, sector0, entry0) ==
  LET Fresh(w1, an) ==
        [d |-> write_sector([w1.d EXCEPT !.dir = DirBlock(0, LAST, ZeroDir)],
                            an.track, an.sector,
                            DirBlock(0, LAST, ZeroDir)).d,
         ok |-> TRUE, track |-> an.track, sector |-> an.sector, entry |-> 0]
      Linked(sc, an, linked) ==
        Fresh(write_sector([an.d EXCEPT !.dir = linked], sc.track, sc.sector,
                           linked), an)
      Allocated(sc, an) ==
        IF ~an.ok
        THEN [d |-> an.d, ok |-> FALSE, track |-> sc.track,
              sector |-> sc.sector, entry |-> sc.entry]
        ELSE Linked(sc, an, [an.d.dir EXCEPT !.t = an.track, !.s = an.sector])
      Scanned(sc) ==
        IF sc.r = "found" \/ sc.r = "fail"
        THEN [d |-> sc.d, ok |-> (sc.r = "found"), track |-> sc.track,
              sector |-> sc.sector, entry |-> sc.entry]
        ELSE Allocated(sc, alloc_next_block(sc.d, sc.track, sc.sector,
                                            DIR_INTERLEAVE))
  IN Scanned(dir_scan([d EXCEPT !.dir.t = DIR_TRACK,
                                !.dir.s = FIRST_DIR_SECTOR],
                      track0, sector0, entry0, ChainFuel))

(***************************************************************************)
(* open_file_ts                                                            *)
(***************************************************************************)
open_file_ts(d, channel, track, sector) ==
  LET Got(ab) ==
        IF ab.buf = -1 THEN d64_drive_set_error(d, "NOCHANNEL", 0, 0)
        ELSE [ab.d EXCEPT !.ch[channel].buf_num = ab.buf,
                          !.ch[channel].buf = ab.buf,
                          !.ch[channel].mode = "FILE",
                          !.ram[ab.buf].t = track,
                          !.ram[ab.buf].s = sector,
                          !.ch[channel].buf_len = 0]
  IN Got(alloc_buffer(d, -1))

(***************************************************************************)
(* create_file                                                             *)
(***************************************************************************)
Truncate(name, n) == IF Len(name) > n THEN SubSeq(name, 1, n) ELSE name

create_file(d, channel, name, type, overwrite) ==
  LET Entered(ad, d4) ==
        [write_sector(d4, ad.track, ad.sector, d4.dir).d
           EXCEPT !.ch[channel].mode = "FILE",
                  !.ch[channel].writing = TRUE,
                  !.ch[channel].buf_ptr = 2,
                  !.ch[channel].buf_len = 2]
      Allocated(ab, ad, an) ==
        IF ~an.ok THEN free_buffer(an.d, ab.buf)
        ELSE Entered(ad,
               [an.d EXCEPT
                  !.ch[channel].track = an.track,
                  !.ch[channel].sector = an.sector,
                  !.ch[channel].num_blocks = 1,
                  !.dir.v[ad.entry + 1] =
                     [ZeroEntry EXCEPT
                        !.type = type,
                        !.ovr_track = IF overwrite THEN an.track ELSE 0,
                        !.ovr_sector = IF overwrite THEN an.sector ELSE 0,
                        !.track = IF overwrite THEN 0 ELSE an.track,
                        !.sector = IF overwrite THEN 0 ELSE an.sector,
                        !.name = Truncate(name, NAME_LEN)]])
      Placed(ab, ad, d2) ==
        IF ~ad.ok THEN free_buffer(d2, ab.buf)
        ELSE Allocated(ab, ad,
               alloc_next_block([d2 EXCEPT
                                   !.ch[channel].track = DIR_TRACK - 1,
                                   !.ch[channel].sector = -DATA_INTERLEAVE],
                                DIR_TRACK - 1, -DATA_INTERLEAVE,
                                DATA_INTERLEAVE))
      Slot(ab, ad) ==
        Placed(ab, ad, [ad.d EXCEPT !.ch[channel].dir_track = ad.track,
                                    !.ch[channel].dir_sector = ad.sector,
                                    !.ch[channel].entry = ad.entry])
      Buffered(ab, d1) ==
        Slot(ab, IF overwrite
                 THEN [d |-> d1, ok |-> TRUE,
                       track |-> d1.ch[channel].dir_track,
                       sector |-> d1.ch[channel].dir_sector,
                       entry |-> d1.ch[channel].entry]
                 ELSE alloc_dir_entry(d1, d1.ch[channel].dir_track,
                                      d1.ch[channel].dir_sector,
                                      d1.ch[channel].entry))
      Got(ab) ==
        IF ab.buf = -1 THEN d64_drive_set_error(d, "NOCHANNEL", 0, 0)
        ELSE Buffered(ab, [ab.d EXCEPT !.ch[channel].buf_num = ab.buf,
                                       !.ch[channel].buf = ab.buf])
  IN Got(alloc_buffer(d, -1))

(***************************************************************************)
(* Bytes of a work buffer: offset 0 and 1 are the link, offset o >= 2 is   *)
(* v[o - 1].  A buffer that holds a BAM or directory sector reads as RAW.  *)
(***************************************************************************)
AsData(blk) ==
  IF blk.k = "data" THEN blk
  ELSE DataBlock(blk.t, blk.s, [i \in 1..(BLOCK - 2) |-> RAW])

GetByte(blk, o) ==
  IF o = 0 THEN blk.t ELSE IF o = 1 THEN blk.s
  ELSE IF blk.k = "data" /\ (o - 1) \in DOMAIN blk.v THEN blk.v[o - 1] ELSE RAW

SetByte(blk, o, byte) ==
  IF o = 0 THEN [blk EXCEPT !.t = byte]
  ELSE IF o = 1 THEN [blk EXCEPT !.s = byte]
  ELSE [AsData(blk) EXCEPT !.v[o - 1] = byte]

(***************************************************************************)
(* open_direct: name is the received name, a zero byte following it.       *)
(***************************************************************************)
NameByte(name, i) == IF i < Len(name) THEN name[i + 1] ELSE 0

open_direct(d, channel, name) ==
  LET Got(ab) ==
        IF ab.buf = -1 THEN d64_drive_set_error(d, "NOCHANNEL", 0, 0)
        ELSE [ab.d EXCEPT !.ch[channel].mode = "DIRECT",
                          !.ch[channel].buf = ab.buf,
                          !.ch[channel].buf_num = ab.buf,
                          !.ram[ab.buf] = SetByte(@, 1, ab.buf + Ch0),
                          !.ch[channel].buf_len = 1,
                          !.ch[channel].buf_ptr = 1]
      \* the buffer asked for: -1 any, -2 none (a name that is no "#" or "#n")
      want == IF NameByte(name, 1) = 0 THEN -1
              ELSE IF /\ NameByte(name, 1) >= Ch0 /\ NameByte(name, 1) <= Ch3
                      /\ NameByte(name, 2) = 0
              THEN NameByte(name, 1) - Ch0
              ELSE -2
  IN IF want = -2 THEN d64_drive_set_error(d, "NOCHANNEL", 0, 0)
     ELSE Got(alloc_buffer(d, want))

(***************************************************************************)
(* open_directory.  The listing is kept by its length only, one byte for   *)
(* the title line, one for every matching entry and one for the BLOCKS     *)
(* FREE line; the text of the lines is not modelled.                       *)
(***************************************************************************)
\* memchr: the 1-based index of the first c among the first len bytes, or 0
IndexOf(seq, c, len) ==
  IF \E i \in 1..len : i <= Len(seq) /\ seq[i] = c
  THEN CHOOSE i \in 1..len :
         /\ i <= Len(seq) /\ seq[i] = c
         /\ \A j \in 1..(i - 1) : seq[j] # c
  ELSE 0

Drop(seq, n) == IF n >= Len(seq) THEN <<>> ELSE SubSeq(seq, n + 1, Len(seq))

RECURSIVE listing_scan(_, _, _, _, _, _)
listing_scan(d, t, s, pattern, n, lines) ==
  LET AfterRead(rd) ==
        IF ~rd.ok THEN [d |-> rd.d, lines |-> lines]
        ELSE listing_scan(rd.d, rd.blk.t, rd.blk.s, pattern, n + 1,
               lines + Cardinality({e \in 1..DirEntries :
                          /\ AsDir(rd.blk).v[e].type # 0
                          /\ match(pattern, AsDir(rd.blk).v[e].name)}))
  IN IF t = 0 \/ n >= num_sectors(DIR_TRACK) THEN [d |-> d, lines |-> lines]
     ELSE AfterRead(read_sector(d, t, s))

open_directory(d, pattern0) ==
  LET Listed(sc) ==
        [sc.d EXCEPT !.ch[0].mode = "DIRECTORY",
                     !.ch[0].buf = DIRBUF,
                     !.ch[0].buf_ptr = 0,
                     !.ch[0].buf_len = sc.lines + 2]
      From(p1, k) ==
        Listed(listing_scan(d, DIR_TRACK, FIRST_DIR_SECTOR,
                            IF k # 0 THEN Drop(p1, k) ELSE <<ChStar>>, 0, 0))
      Named(p1) == From(p1, IndexOf(p1, ChColon, Len(p1)))
  IN Named(IF Len(pattern0) = 1 /\ pattern0[1] = Ch0 THEN <<>> ELSE pattern0)

(***************************************************************************)
(* d64_parse_file_name: [name, mode, type, rec_len]                        *)
(***************************************************************************)
\* the byte at 1-based position pos of the zero-terminated source
At(src, pos) == IF pos >= 1 /\ pos <= Len(src) THEN src[pos] ELSE 0

\* while (*p != ',' && src_len-- > 0) *q++ = *p++;
RECURSIVE copy_name(_, _, _, _)
copy_name(src, pos, rem, acc) ==
  IF At(src, pos) = ChComma THEN [name |-> acc, pos |-> pos, rem |-> rem]
  ELSE IF rem > 0 THEN copy_name(src, pos + 1, rem - 1, Append(acc, At(src, pos)))
  ELSE [name |-> acc, pos |-> pos, rem |-> rem - 1]

\* while (*p != ',' && src_len-- > 0) p++;
RECURSIVE skip_to_comma(_, _, _)
skip_to_comma(src, pos, rem) ==
  IF At(src, pos) = ChComma THEN [pos |-> pos, rem |-> rem]
  ELSE IF rem > 0 THEN skip_to_comma(src, pos + 1, rem - 1)
  ELSE [pos |-> pos, rem |-> rem - 1]

RECURSIVE strip_cr(_)
strip_cr(name) ==
  IF Len(name) > 0 /\ name[Len(name)] = CR
  THEN strip_cr(SubSeq(name, 1, Len(name) - 1)) ELSE name

RECURSIVE parse_params(_, _, _, _)
parse_params(src, pos, rem, acc) ==
  IF rem <= 0 THEN acc
  ELSE
    LET c == At(src, pos)
        a1 == IF c = ChD THEN [acc EXCEPT !.type = FTYPE_DEL]
              ELSE IF c = ChS THEN [acc EXCEPT !.type = FTYPE_SEQ]
              ELSE IF c = ChP THEN [acc EXCEPT !.type = FTYPE_PRG]
              ELSE IF c = ChU THEN [acc EXCEPT !.type = FTYPE_USR]
              ELSE IF c = ChL THEN [acc EXCEPT !.type = FTYPE_REL]
              ELSE IF c = ChR THEN [acc EXCEPT !.mode = "READ"]
              ELSE IF c = ChW THEN [acc EXCEPT !.mode = "WRITE"]
              ELSE IF c = ChA THEN [acc EXCEPT !.mode = "APPEND"]
              ELSE IF c = ChM THEN [acc EXCEPT !.mode = "M"]
              ELSE acc
        \* case 'L' also reads the record length after the next comma
        l1 == skip_to_comma(src, pos, rem)
        lrem == l1.rem - 2
        a2 == IF c = ChL
              THEN [a1 EXCEPT !.rec_len = IF lrem < 0 THEN 0 ELSE At(src, l1.pos + 1)]
              ELSE a1
        sk == IF c = ChL THEN skip_to_comma(src, l1.pos + 2, lrem)
              ELSE skip_to_comma(src, pos, rem)
    IN parse_params(src, sk.pos + 1, sk.rem - 1, a2)

d64_parse_file_name(src, mode, type) ==
  LET Parsed(cn, pp) ==
        [name |-> strip_cr(cn.name), mode |-> pp.mode, type |-> pp.type,
         rec_len |-> pp.rec_len]
      Copied(cn) ==
        Parsed(cn, parse_params(src, cn.pos + 1, cn.rem - 1,
                                [mode |-> mode, type |-> type, rec_len |-> 0]))
      Colon(k) ==
        Copied(copy_name(src, IF k # 0 THEN k + 1 ELSE 1,
                         IF k # 0 THEN Len(src) - k ELSE Len(src), <<>>))
  IN Colon(IndexOf(src, ChColon, Len(src)))

(***************************************************************************)
(* error_messages[]: the text before the track and sector fields, as       *)
(* character codes ("NN,MESSAGE"), and the message snprintf formats from   *)
(* it: "NN,MESSAGE,TT,SS\r".                                               *)
(***************************************************************************)
Errors == {"OK", "SCRATCHED", "UNIMPLEMENTED", "READ20", "READ21", "READ22",
           "READ23", "READ24", "WRITE25", "WRITEPROTECT", "READ27", "WRITE28",
           "DISKID", "SYNTAX30", "SYNTAX31", "SYNTAX32", "SYNTAX33", "SYNTAX34",
           "WRITEFILEOPEN", "FILENOTOPEN", "FILENOTFOUND", "FILEEXISTS",
           "FILETYPE", "NOBLOCK", "ILLEGALTS", "NOCHANNEL", "DIRERROR",
           "DISKFULL", "STARTUP", "NOTREADY"}

error_messages(error) ==
  IF error = "OK" THEN <<48,48,44,79,75>>
  ELSE IF error = "SCRATCHED" THEN <<48,49,44,70,73,76,69,83,32,83,67,82,65,84,67,72,69,68>>
  ELSE IF error = "UNIMPLEMENTED" THEN <<48,51,44,85,78,73,77,80,76,69,77,69,78,84,69,68>>
  ELSE IF error = "READ20" THEN <<50,48,44,82,69,65,68,32,69,82,82,79,82>>
  ELSE IF error = "READ21" THEN <<50,49,44,82,69,65,68,32,69,82,82,79,82>>
  ELSE IF error = "READ22" THEN <<50,50,44,82,69,65,68,32,69,82,82,79,82>>
  ELSE IF error = "READ23" THEN <<50,51,44,82,69,65,68,32,69,82,82,79,82>>
  ELSE IF error = "READ24" THEN <<50,52,44,82,69,65,68,32,69,82,82,79,82>>
  ELSE IF error = "WRITE25" THEN <<50,53,44,87,82,73,84,69,32,69,82,82,79,82>>
  ELSE IF error = "WRITEPROTECT" THEN <<50,54,44,87,82,73,84,69,32,80,82,79,84,69,67,84,32,79,78>>
  ELSE IF error = "READ27" THEN <<50,55,44,82,69,65,68,32,69,82,82,79,82>>
  ELSE IF error = "WRITE28" THEN <<50,56,44,87,82,73,84,69,32,69,82,82,79,82>>
  ELSE IF error = "DISKID" THEN <<50,57,44,68,73,83,75,32,73,68,32,77,73,83,77,65,84,67,72>>
  ELSE IF error = "SYNTAX30" THEN <<51,48,44,83,89,78,84,65,88,32,69,82,82,79,82>>
  ELSE IF error = "SYNTAX31" THEN <<51,49,44,83,89,78,84,65,88,32,69,82,82,79,82>>
  ELSE IF error = "SYNTAX32" THEN <<51,50,44,83,89,78,84,65,88,32,69,82,82,79,82>>
  ELSE IF error = "SYNTAX33" THEN <<51,51,44,83,89,78,84,65,88,32,69,82,82,79,82>>
  ELSE IF error = "SYNTAX34" THEN <<51,52,44,83,89,78,84,65,88,32,69,82,82,79,82>>
  ELSE IF error = "WRITEFILEOPEN" THEN <<54,48,44,87,82,73,84,69,32,70,73,76,69,32,79,80,69,78>>
  ELSE IF error = "FILENOTOPEN" THEN <<54,49,44,70,73,76,69,32,78,79,84,32,79,80,69,78>>
  ELSE IF error = "FILENOTFOUND" THEN <<54,50,44,70,73,76,69,32,78,79,84,32,70,79,85,78,68>>
  ELSE IF error = "FILEEXISTS" THEN <<54,51,44,70,73,76,69,32,69,88,73,83,84,83>>
  ELSE IF error = "FILETYPE" THEN <<54,52,44,70,73,76,69,32,84,89,80,69,32,77,73,83,77,65,84,67,72>>
  ELSE IF error = "NOBLOCK" THEN <<54,53,44,78,79,32,66,76,79,67,75>>
  ELSE IF error = "ILLEGALTS" THEN <<54,54,44,73,76,76,69,71,65,76,32,84,82,65,67,75,32,79,82,32,83,69,67,84,79,82>>
  ELSE IF error = "NOCHANNEL" THEN <<55,48,44,78,79,32,67,72,65,78,78,69,76>>
  ELSE IF error = "DIRERROR" THEN <<55,49,44,68,73,82,32,69,82,82,79,82>>
  ELSE IF error = "DISKFULL" THEN <<55,50,44,68,73,83,75,32,70,85,76,76>>
  ELSE IF error = "STARTUP" THEN <<55,51,44,77,85,82,77,67,54,52,32,86,73,82,84,85,65,76,32,49,53,52,49>>
  ELSE <<55,52,44,68,82,73,86,69,32,78,79,84,32,82,69,65,68,89>>

\* %02d
RECURSIVE Digits(_)
Digits(n) ==
  IF n < 10 THEN <<Ch0 + n>> ELSE Append(Digits(n \div 10), Ch0 + (n % 10))
Fmt02d(n) ==
  IF n < 0 THEN <<ChMinus>> \o Digits(-n)
  ELSE IF n < 10 THEN <<Ch0>> \o Digits(n) ELSE Digits(n)

error_buf(d) ==
  error_messages(d.current_error) \o <<ChComma>> \o Fmt02d(d.error_track)
    \o <<ChComma>> \o Fmt02d(d.error_sector) \o <<CR>>

(***************************************************************************)
(* The BAM sector of the image (track DIR_TRACK, sector 0): its link bytes *)
(* point at the first directory block, its body is the block map.          *)
(***************************************************************************)
BamBlock(bam) == [t |-> DIR_TRACK, s |-> FIRST_DIR_SECTOR, k |-> "bam", v |-> bam]
ZeroBam == [t \in 0..MaxTrack |-> [cnt |-> 0, free |-> {}]]
ZeroRam == [b \in Buffers |-> DataBlock(0, 0, ZeroData)]

\* the write-back with the write left out: the flag is cleared only
flush_bam_without_write(d) == [d EXCEPT !.bam_dirty = FALSE]

\* write back the BAM if it is dirty
flush_bam(d) ==
  IF d.bam_dirty
  THEN [write_sector(d, DIR_TRACK, 0, BamBlock(d.bam)).d EXCEPT !.bam_dirty = FALSE]
  ELSE d

\* read_sector(drive, DIR_TRACK, 0, drive->bam)
reread_bam(d) ==
  LET AfterRead(rd) ==
        IF ~rd.ok THEN rd.d
        ELSE IF rd.blk.k = "bam" THEN [rd.d EXCEPT !.bam = rd.blk.v]
        ELSE [rd.d EXCEPT !.bam = ZeroBam, !.mixed = TRUE]
  IN AfterRead(read_sector(d, DIR_TRACK, 0))

(***************************************************************************)
(* d64_drive_close and close_all_channels                                  *)
(***************************************************************************)
SetClosed(type) == IF TypeClosed(type) THEN type ELSE type + 128

\* free_buf: the end of the CHMOD_FILE case
\* the free_buf label without its free_buffer
close_keeps_buf(d, channel) ==
  [d EXCEPT !.ch[channel].buf = NULLBUF, !.ch[channel].mode = "FREE"]

close_free_buf(d, channel) ==
  [free_buffer(d, d.ch[channel].buf_num) EXCEPT
     !.ch[channel].buf = NULLBUF, !.ch[channel].mode = "FREE"]

\* the close of a written file without the CR for an untouched buffer
close_written_no_cr(d, channel) ==
  LET c == d.ch[channel]
      len == c.buf_len
      Updated(d3) ==
        close_free_buf(write_sector(d3, c.dir_track, c.dir_sector, d3.dir).d,
                       channel)
      Entry(d2, de) ==
        Updated([(IF de.ovr_track # 0
                  THEN free_block_chain(d2, de.track, de.sector).d ELSE d2)
                   EXCEPT !.dir.v[c.entry + 1] =
                     [de EXCEPT
                        !.type = SetClosed(de.type),
                        !.num_blocks = c.num_blocks % 65536,
                        !.track = IF de.ovr_track # 0 THEN de.ovr_track ELSE @,
                        !.sector = IF de.ovr_track # 0 THEN de.ovr_sector ELSE @,
                        !.ovr_track = 0,
                        !.ovr_sector = IF de.ovr_track # 0 THEN 0 ELSE @]])
      Dir(d2) == Entry(d2, d2.dir.v[c.entry + 1])
      Flushed(w) ==
        IF ~w.ok THEN close_free_buf(w.d, channel)
        ELSE IF c.entry >= DirEntries THEN [w.d EXCEPT !.fault = TRUE]
        ELSE Dir(LET rd == read_sector(w.d, c.dir_track, c.dir_sector)
                 IN IF rd.ok THEN LoadDir(rd.d, rd.blk) ELSE rd.d)
      Last(b2) ==
        Flushed(write_sector([d EXCEPT !.ram[c.buf] = b2,
                                       !.ch[channel].buf_len = len],
                             c.track, c.sector, b2))
  IN Last(SetByte(SetByte(d.ram[c.buf], 0, 0), 1, (len + 255) % 256))

\* the CHMOD_FILE case of a channel that is writing
close_written(d, channel) ==
  LET c == d.ch[channel]
      len == IF c.buf_len = 2 THEN 3 ELSE c.buf_len
      Updated(d3) ==
        close_free_buf(write_sector(d3, c.dir_track, c.dir_sector, d3.dir).d,
                       channel)
      Entry(d2, de) ==
        Updated([(IF de.ovr_track # 0
                  THEN free_block_chain(d2, de.track, de.sector).d ELSE d2)
                   EXCEPT !.dir.v[c.entry + 1] =
                     [de EXCEPT
                        !.type = SetClosed(de.type),
                        !.num_blocks = c.num_blocks % 65536,
                        !.track = IF de.ovr_track # 0 THEN de.ovr_track ELSE @,
                        !.sector = IF de.ovr_track # 0 THEN de.ovr_sector ELSE @,
                        !.ovr_track = 0,
                        !.ovr_sector = IF de.ovr_track # 0 THEN 0 ELSE @]])
      Dir(d2) == Entry(d2, d2.dir.v[c.entry + 1])
      Flushed(w) ==
        IF ~w.ok THEN close_free_buf(w.d, channel)
        ELSE IF c.entry >= DirEntries THEN [w.d EXCEPT !.fault = TRUE]
        ELSE Dir(LET rd == read_sector(w.d, c.dir_track, c.dir_sector)
                 IN IF rd.ok THEN LoadDir(rd.d, rd.blk) ELSE rd.d)
      Last(b2) ==
        Flushed(write_sector([d EXCEPT !.ram[c.buf] = b2,
                                       !.ch[channel].buf_len = len],
                             c.track, c.sector, b2))
  IN Last(SetByte(SetByte(IF c.buf_len = 2 THEN SetByte(d.ram[c.buf], 2, CR)
                          ELSE d.ram[c.buf], 0, 0),
                  1, (len + 255) % 256))

RECURSIVE d64_drive_close(_, _)
RECURSIVE close_channels(_, _)

\* d64_drive_close on the channels of seq, in order
close_channels(d, seq) ==
  IF seq = <<>> THEN d
  ELSE close_channels(d64_drive_close(d, Head(seq)), Tail(seq))

\* close_all_channels that gives up the command channel as well
close_all_channels_and_command(d) ==
  [close_channels(d, [i \in 1..17 |-> IF i <= 15 THEN i - 1 ELSE i])
     EXCEPT !.cmd_len = 0, !.ch[15].mode = "FREE"]

close_all_channels(d) ==
  [close_channels(d, [i \in 1..17 |-> IF i <= 15 THEN i - 1 ELSE i])
     EXCEPT !.cmd_len = 0]

d64_drive_close(d, channel) ==
  LET mode == d.ch[channel].mode IN
  IF mode = "FREE" THEN d
  ELSE IF mode = "COMMAND" THEN close_all_channels(d)
  ELSE IF mode = "DIRECT" THEN close_free_buf(d, channel)
  ELSE IF mode = "FILE"
  THEN IF d.ch[channel].writing THEN close_written(d, channel)
       ELSE close_free_buf(d, channel)
  ELSE IF mode = "DIRECTORY"
  THEN [d EXCEPT !.ch[channel].buf = NULLBUF, !.ch[channel].mode = "FREE"]
  ELSE d

(***************************************************************************)
(* d64_drive_reset                                                         *)
(***************************************************************************)
\* d64_drive_reset without the read of the BAM sector at its end
d64_drive_reset_without_read(d) ==
  LET Flushed(d2) ==
        d64_drive_set_error([d2 EXCEPT !.ram = ZeroRam, !.bam = ZeroBam],
                            "STARTUP", 0, 0)
      Closed(d1) == Flushed(IF d1.file_open THEN flush_bam(d1) ELSE d1)
  IN Closed([close_all_channels(d) EXCEPT
               !.cmd_len = 0, !.buf_free = [i \in Buffers |-> TRUE]])

d64_drive_reset(d) ==
  LET Reread(d3) ==
        d64_drive_set_error(IF d3.file_open THEN reread_bam(d3) ELSE d3,
                            "STARTUP", 0, 0)
      Flushed(d2) == Reread([d2 EXCEPT !.ram = ZeroRam, !.bam = ZeroBam])
      Closed(d1) == Flushed(IF d1.file_open THEN flush_bam(d1) ELSE d1)
  IN Closed([close_all_channels(d) EXCEPT
               !.cmd_len = 0, !.buf_free = [i \in Buffers |-> TRUE]])

(***************************************************************************)
(* d64_execute_cmd: cmd is the buffer the command lies in, cmd_len0 its    *)
(* length as passed.                                                       *)
(***************************************************************************)
CmdByte(cmd, i) == IF i < Len(cmd) THEN cmd[i + 1] ELSE 0

RECURSIVE strip_len(_, _)
strip_len(cmd, n) ==
  IF n > 0 /\ CmdByte(cmd, n - 1) = CR THEN strip_len(cmd, n - 1) ELSE n

ScratchFuel == 2 * DirEntries * SecPerTrack + 2

\* the do-while loop of case 'S' over the matches: [d, num_files]
RECURSIVE scratch_loop(_, _, _, _)
scratch_loop(fr, files, num_files, fuel) ==
  LET Erased(d3) ==
        write_sector(d3, fr.dir_track, fr.dir_sector, d3.dir).d
      Freed(de) ==
        Erased([free_block_chain(
                  free_block_chain(fr.d, de.track, de.sector).d,
                  de.side_track, de.side_sector).d
                  EXCEPT !.dir.v[fr.entry + 1].type = 0])
      Step(de) ==
        scratch_loop(find_next_file(IF TypeLocked(de.type) THEN fr.d
                                    ELSE Freed(de),
                                    files, fr.dir_track, fr.dir_sector,
                                    fr.entry),
                     files,
                     IF TypeLocked(de.type) THEN num_files ELSE num_files + 1,
                     fuel - 1)
  IN IF ~fr.found THEN [d |-> fr.d, num_files |-> num_files]
     ELSE IF fuel = 0
     THEN [d |-> [fr.d EXCEPT !.hung = TRUE], num_files |-> num_files]
     ELSE Step(fr.d.dir.v[fr.entry + 1])

cmd_scratch(d, cmd, cmd_len) ==
  LET Done(sl) == d64_drive_set_error(sl.d, "SCRATCHED", sl.num_files, 0)
      Files(files) ==
        Done(scratch_loop(find_first_file(d, files), files, 0, ScratchFuel))
      Colon(colon) ==
        IF colon = 0 THEN d64_drive_set_error(d, "SYNTAX34", 0, 0)
        ELSE IF d.write_protected
        THEN d64_drive_set_error(d, "WRITEPROTECT", 0, 0)
        ELSE Files(Truncate(IF colon >= cmd_len THEN <<>>
                            ELSE SubSeq(cmd, colon + 1, cmd_len), NAME_LEN))
  IN Colon(IndexOf(cmd, ChColon, cmd_len))

cmd_initialize(d) == reread_bam(flush_bam(close_all_channels(d)))

\* a mutation of cmd_user: the second byte is compared, not its low nibble
cmd_user_exact(d, cmd) ==
  IF CmdByte(cmd, 1) = Ch0 THEN d
  ELSE IF CmdByte(cmd, 1) \in {ChI, ChJ} THEN d64_drive_reset(d)
  ELSE d64_drive_set_error(d, "UNIMPLEMENTED", 0, 0)

cmd_user(d, cmd) ==
  IF CmdByte(cmd, 1) = Ch0 THEN d
  ELSE IF CmdByte(cmd, 1) % 16 \in {9, 10} THEN d64_drive_reset(d)
  ELSE d64_drive_set_error(d, "UNIMPLEMENTED", 0, 0)

\* the dispatch with the default case of the switch taken for unimplemented
d64_execute_cmd_default_unimplemented(d, cmd, cmd_len0) ==
  LET Run(d0, cmd_len, c0) ==
        IF c0 = ChI THEN cmd_initialize(d0)
        ELSE IF c0 = ChU THEN cmd_user(d0, cmd)
        ELSE IF c0 = ChS THEN cmd_scratch(d0, cmd, cmd_len)
        ELSE d64_drive_set_error(d0,
               IF c0 = ChB /\ IndexOf(cmd, ChMinus, cmd_len) = 0
               THEN "SYNTAX31" ELSE "UNIMPLEMENTED", 0, 0)
  IN Run(d64_drive_set_error(d, "OK", 0, 0), strip_len(cmd, cmd_len0),
         CmdByte(cmd, 0))

d64_execute_cmd(d, cmd, cmd_len0) ==
  LET Run(d0, cmd_len, c0) ==
        IF c0 = ChI THEN cmd_initialize(d0)
        ELSE IF c0 = ChU THEN cmd_user(d0, cmd)
        ELSE IF c0 = ChS THEN cmd_scratch(d0, cmd, cmd_len)
        ELSE d64_drive_set_error(d0,
               IF c0 = ChB
               THEN IF IndexOf(cmd, ChMinus, cmd_len) = 0 THEN "SYNTAX31"
                    ELSE "UNIMPLEMENTED"
               ELSE IF c0 \in {ChM, ChV, ChN, ChR, ChC} THEN "UNIMPLEMENTED"
               ELSE "SYNTAX31", 0, 0)
  IN Run(d64_drive_set_error(d, "OK", 0, 0), strip_len(cmd, cmd_len0),
         CmdByte(cmd, 0))

(***************************************************************************)
(* open_file                                                               *)
(***************************************************************************)
\* the "seek to end" loop of the append case: [d, ok, track, sector, num_blocks]
RECURSIVE append_seek(_, _, _, _, _, _)
append_seek(d, b, track, sector, num_blocks, fuel) ==
  LET AfterRead(rd) ==
        IF ~rd.ok
        THEN [d |-> rd.d, ok |-> FALSE, track |-> d.ram[b].t,
              sector |-> d.ram[b].s, num_blocks |-> num_blocks]
        ELSE append_seek([rd.d EXCEPT !.ram[b] = rd.blk], b, d.ram[b].t,
                         d.ram[b].s, num_blocks + 1, fuel - 1)
  IN IF d.ram[b].t = 0
     THEN [d |-> d, ok |-> TRUE, track |-> track, sector |-> sector,
           num_blocks |-> num_blocks]
     ELSE IF fuel = 0
     THEN [d |-> [d EXCEPT !.hung = TRUE], ok |-> FALSE, track |-> track,
           sector |-> sector, num_blocks |-> num_blocks]
     ELSE AfterRead(read_sector(d, d.ram[b].t, d.ram[b].s))

\* the FMODE_APPEND case; the result of open_file_ts is not looked at, so
\* that without a free buffer the loop works on the pointer the channel
\* held before, a null pointer if the channel was closed properly
open_append(d, channel, de) ==
  LET Sought(b, sk) ==
        IF ~sk.ok THEN sk.d
        ELSE [sk.d EXCEPT !.ch[channel].writing = TRUE,
                          !.ch[channel].buf_len = sk.d.ram[b].s + 1,
                          !.ch[channel].buf_ptr = sk.d.ram[b].s + 1,
                          !.ch[channel].track = sk.track,
                          !.ch[channel].sector = sk.sector,
                          !.ch[channel].num_blocks = sk.num_blocks]
      Opened(d1, b) ==
        IF b \notin Buffers THEN [d1 EXCEPT !.fault = TRUE]
        ELSE Sought(b, append_seek(d1, b, 0, 0, 0, ChainFuel))
      Ts(d1) == Opened(d1, d1.ch[channel].buf)
  IN Ts(open_file_ts(d, channel, de.track, de.sector))

open_file(d, channel, name) ==
  LET \* what the function ends with: an error, create_file, the append
      \* case or open_file_ts
      Do(x) ==
        IF x.act = "error" THEN d64_drive_set_error(x.d, x.error, 0, 0)
        ELSE IF x.act = "create"
        THEN create_file(x.d, channel, x.name, x.type, x.overwrite)
        ELSE IF x.act = "append" THEN open_append(x.d, channel, x.de)
        ELSE open_file_ts(x.d, channel, x.de.track, x.de.sector)
      Plan(act, error, d1, plain_name, type, overwrite, de) ==
        [act |-> act, error |-> error, d |-> d1, name |-> plain_name,
         type |-> type, overwrite |-> overwrite, de |-> de]
      Fail(error, d1) == Plan("error", error, d1, <<>>, 0, FALSE, ZeroEntry)
      Found(plain_name, mode, type2, d2, de) ==
        IF de.type % 8 # type2 THEN Fail("FILETYPE", d2)
        ELSE IF mode = "WRITE"
        THEN IF NameByte(name, 0) = ChAt
             THEN Plan("create", "OK", d2, plain_name, type2, TRUE, de)
             ELSE Fail("FILEEXISTS", d2)
        ELSE IF mode = "APPEND"
        THEN Plan("append", "OK", d2, plain_name, type2, FALSE, de)
        ELSE IF mode = "M" \/ TypeClosed(de.type)
        THEN Plan("ts", "OK", d2, plain_name, type2, FALSE, de)
        ELSE Fail("WRITEFILEOPEN", d2)
      Looked(plain_name, mode, type, ff) ==
        IF ff.found
        THEN Found(plain_name, mode,
                   IF type = FTYPE_DEL THEN ff.d.dir.v[ff.entry + 1].type % 8
                   ELSE type,
                   [ff.d EXCEPT !.ch[channel].dir_track = ff.dir_track,
                                !.ch[channel].dir_sector = ff.dir_sector,
                                !.ch[channel].entry = ff.entry],
                   ff.d.dir.v[ff.entry + 1])
        ELSE IF mode = "WRITE"
        THEN Plan("create", "OK", ff.d, plain_name,
                  IF type = FTYPE_DEL THEN FTYPE_SEQ ELSE type, FALSE,
                  ZeroEntry)
        ELSE Fail("FILENOTFOUND", ff.d)
      Checked(plain_name, mode, type, writing, d1) ==
        IF writing /\ (\E i \in 1..Len(plain_name) :
                          plain_name[i] \in {ChStar, ChQuest})
        THEN Fail("SYNTAX33", d1)
        ELSE IF writing /\ d1.write_protected THEN Fail("WRITEPROTECT", d1)
        ELSE IF type = FTYPE_REL THEN Fail("UNIMPLEMENTED", d1)
        ELSE Looked(plain_name, mode, type, find_first_file(d1, plain_name))
      Moded(plain_name, mode, type) ==
        Checked(plain_name, mode, type, mode \in {"WRITE", "APPEND"},
                [d EXCEPT !.ch[channel].writing = mode \in {"WRITE", "APPEND"}])
      Parsed(pn) ==
        Moded(Truncate(pn.name, NAME_LEN),
              IF channel = 0 THEN "READ" ELSE IF channel = 1 THEN "WRITE"
              ELSE pn.mode,
              IF channel \in {0, 1} /\ pn.type = FTYPE_DEL THEN FTYPE_PRG
              ELSE pn.type)
  IN Do(Parsed(d64_parse_file_name(name, "READ", FTYPE_DEL)))

(***************************************************************************)
(* d64_drive_open                                                          *)
(***************************************************************************)
d64_drive_open(d, channel, name) ==
  LET Cleared(d0) ==
        IF channel = 15 THEN d64_execute_cmd(d0, name, Len(name))
        ELSE IF d0.ch[channel].mode # "FREE"
        THEN d64_drive_set_error(d0, "NOCHANNEL", 0, 0)
        ELSE IF NameByte(name, 0) = ChDollar
        THEN IF channel # 0 THEN open_file_ts(d0, channel, DIR_TRACK, 0)
             ELSE open_directory(d0, Drop(name, 1))
        ELSE IF NameByte(name, 0) = ChHash THEN open_direct(d0, channel, name)
        ELSE open_file(d0, channel, name)
  IN Cleared(d64_drive_set_error(d, "OK", 0, 0))

(***************************************************************************)
(* Access through channel.buf_ptr.  The work buffers lie one after the     *)
(* other in drive->ram, so an offset past the end of buffer b is a byte of *)
(* the buffers behind it; a store past the last buffer is noted as stray.  *)
(***************************************************************************)
RamGet(d, b, o) ==
  IF (b + o \div BLOCK) \in Buffers
  THEN GetByte(d.ram[b + o \div BLOCK], o % BLOCK) ELSE RAW

RamSet(d, b, o, byte) ==
  IF (b + o \div BLOCK) \in Buffers
  THEN [d EXCEPT !.ram[b + o \div BLOCK] = SetByte(@, o % BLOCK, byte)]
  ELSE [d EXCEPT !.stray = TRUE]

(***************************************************************************)
(* d64_drive_read: [d, st, byte]; byte = NOBYTE when *byte is not written. *)
(***************************************************************************)
NOBYTE == 0 - 1

\* the read of the error channel that does not go back to OK at the end
read_command_keeps_error(d) ==
  LET Byte(buf) ==
        IF Len(buf) - d.error_read - 1 # 0
        THEN [d |-> [d EXCEPT !.error_read = @ + 1], st |-> ST_OK,
              byte |-> buf[d.error_read + 1]]
        ELSE [d |-> [d EXCEPT !.error_read = 0], st |-> ST_EOF,
              byte |-> buf[d.error_read + 1]]
  IN Byte(error_buf(d))

read_command(d) ==
  LET Byte(buf) ==
        IF Len(buf) - d.error_read - 1 # 0
        THEN [d |-> [d EXCEPT !.error_read = @ + 1], st |-> ST_OK,
              byte |-> buf[d.error_read + 1]]
        ELSE [d |-> d64_drive_set_error(d, "OK", 0, 0), st |-> ST_EOF,
              byte |-> buf[d.error_read + 1]]
  IN Byte(error_buf(d))

\* the file read that reports the end on a read of its own, after the last
\* byte
read_file_eof_apart(d, channel) ==
  LET c == d.ch[channel]
      b == c.buf
      Take(d1, c1) ==
        IF c1.buf_len > 0
        THEN [d |-> [d1 EXCEPT !.ch[channel].buf_ptr = @ + 1,
                               !.ch[channel].buf_len = @ - 1],
              st |-> ST_OK,
              byte |-> RamGet(d1, b, c1.buf_ptr)]
        ELSE [d |-> d1, st |-> ST_EOF, byte |-> NOBYTE]
      Filled(x) ==
        IF ~x.ok
        THEN [d |-> x.d, st |-> ST_READ_TIMEOUT, byte |-> NOBYTE]
        ELSE Take(x.d, x.d.ch[channel])
      \* the next block of the file, read when the buffer is used up
      AfterRead(rd) ==
        IF ~rd.ok THEN [ok |-> FALSE, d |-> rd.d]
        ELSE [ok |-> TRUE,
              d |-> [rd.d EXCEPT
                       !.ram[b] = rd.blk,
                       !.ch[channel].buf_ptr = 2,
                       !.ch[channel].buf_len =
                          IF rd.blk.t # 0 THEN BLOCK - 2 ELSE rd.blk.s - 1]]
  IN IF c.writing \/ d.current_error # "OK"
     THEN [d |-> d, st |-> ST_READ_TIMEOUT, byte |-> NOBYTE]
     ELSE Filled(IF c.buf_len = 0 /\ d.ram[b].t # 0
                 THEN AfterRead(read_sector(d, d.ram[b].t, d.ram[b].s))
                 ELSE [ok |-> TRUE, d |-> d])

read_file(d, channel) ==
  LET c == d.ch[channel]
      b == c.buf
      Take(d1, c1) ==
        IF c1.buf_len > 0
        THEN [d |-> [d1 EXCEPT !.ch[channel].buf_ptr = @ + 1,
                               !.ch[channel].buf_len = @ - 1],
              st |-> IF c1.buf_len - 1 = 0 /\ d1.ram[b].t = 0 THEN ST_EOF
                     ELSE ST_OK,
              byte |-> RamGet(d1, b, c1.buf_ptr)]
        ELSE [d |-> d1, st |-> ST_READ_TIMEOUT, byte |-> NOBYTE]
      Filled(x) ==
        IF ~x.ok
        THEN [d |-> x.d, st |-> ST_READ_TIMEOUT, byte |-> NOBYTE]
        ELSE Take(x.d, x.d.ch[channel])
      \* the next block of the file, read when the buffer is used up
      AfterRead(rd) ==
        IF ~rd.ok THEN [ok |-> FALSE, d |-> rd.d]
        ELSE [ok |-> TRUE,
              d |-> [rd.d EXCEPT
                       !.ram[b] = rd.blk,
                       !.ch[channel].buf_ptr = 2,
                       !.ch[channel].buf_len =
                          IF rd.blk.t # 0 THEN BLOCK - 2 ELSE rd.blk.s - 1]]
  IN IF c.writing \/ d.current_error # "OK"
     THEN [d |-> d, st |-> ST_READ_TIMEOUT, byte |-> NOBYTE]
     ELSE Filled(IF c.buf_len = 0 /\ d.ram[b].t # 0
                 THEN AfterRead(read_sector(d, d.ram[b].t, d.ram[b].s))
                 ELSE [ok |-> TRUE, d |-> d])

read_buffer(d, channel) ==
  LET c == d.ch[channel] IN
  IF c.buf_len > 0
  THEN [d |-> [d EXCEPT !.ch[channel].buf_ptr = @ + 1,
                        !.ch[channel].buf_len = @ - 1],
        st |-> IF c.buf_len - 1 # 0 THEN ST_OK ELSE ST_EOF,
        byte |-> IF c.buf = DIRBUF THEN RAW ELSE RamGet(d, c.buf, c.buf_ptr)]
  ELSE [d |-> d, st |-> ST_READ_TIMEOUT, byte |-> NOBYTE]

d64_drive_read(d, channel) ==
  LET mode == d.ch[channel].mode IN
  IF mode = "FREE"
  THEN [d |-> IF d.current_error = "OK"
              THEN d64_drive_set_error(d, "FILENOTOPEN", 0, 0) ELSE d,
        st |-> ST_READ_TIMEOUT, byte |-> NOBYTE]
  ELSE IF mode = "COMMAND" THEN read_command(d)
  ELSE IF mode = "FILE" THEN read_file(d, channel)
  ELSE IF mode \in {"DIRECTORY", "DIRECT"} THEN read_buffer(d, channel)
  ELSE [d |-> d, st |-> ST_READ_TIMEOUT, byte |-> NOBYTE]

(***************************************************************************)
(* d64_drive_write: [d, st]                                                *)
(***************************************************************************)
\* the last command length at which a byte is still taken (cmd_len > 58)
CMD_MAX == 58

PutCmd(buf, i, byte) ==
  IF i < Len(buf) THEN [buf EXCEPT ![i + 1] = byte] ELSE Append(buf, byte)

write_command(d, byte, eoi) ==
  LET Stored(d1) ==
        IF eoi
        THEN [d |-> [d64_execute_cmd(d1, d1.cmd_buf, d1.cmd_len) EXCEPT
                       !.cmd_len = 0],
              st |-> ST_OK]
        ELSE [d |-> d1, st |-> ST_OK]
  IN IF d.cmd_len > CMD_MAX
     THEN [d |-> d64_drive_set_error(d, "SYNTAX32", 0, 0), st |-> ST_TIMEOUT]
     ELSE Stored([d EXCEPT !.cmd_buf = PutCmd(@, d.cmd_len, byte),
                           !.cmd_len = @ + 1])

\* write_file that drops the byte that finds the buffer full
write_file_drops_at_block_end(d, channel, byte) ==
  LET c == d.ch[channel]
      b == c.buf
      Linked(an, linked) ==
        [d |-> [write_sector([an.d EXCEPT !.ch[channel].num_blocks = @ + 1,
                                          !.ram[b] = linked],
                             c.track, c.sector, linked).d
                  EXCEPT !.ch[channel].buf_ptr = 2,
                         !.ch[channel].buf_len = 2,
                         !.ch[channel].track = an.track,
                         !.ch[channel].sector = an.sector],
         st |-> ST_OK]
      Allocated(an) ==
        IF ~an.ok THEN [d |-> an.d, st |-> ST_TIMEOUT]
        ELSE Linked(an, SetByte(SetByte(an.d.ram[b], 0, an.track),
                                1, an.sector))
  IN IF ~c.writing \/ d.current_error # "OK" THEN [d |-> d, st |-> ST_TIMEOUT]
     ELSE IF c.buf_len >= BLOCK
     THEN Allocated(alloc_next_block(d, c.track, c.sector, DATA_INTERLEAVE))
     ELSE [d |-> [RamSet(d, b, c.buf_ptr, byte) EXCEPT
                    !.ch[channel].buf_ptr = @ + 1,
                    !.ch[channel].buf_len = @ + 1],
           st |-> ST_OK]

write_file(d, channel, byte) ==
  LET c == d.ch[channel]
      b == c.buf
      Store(d1) ==
        [d |-> [RamSet(d1, b, d1.ch[channel].buf_ptr, byte) EXCEPT
                  !.ch[channel].buf_ptr = @ + 1,
                  !.ch[channel].buf_len = @ + 1],
         st |-> ST_OK]
      Linked(an, linked) ==
        Store([write_sector([an.d EXCEPT !.ch[channel].num_blocks = @ + 1,
                                         !.ram[b] = linked],
                            c.track, c.sector, linked).d
               EXCEPT !.ch[channel].buf_ptr = 2,
                      !.ch[channel].buf_len = 2,
                      !.ch[channel].track = an.track,
                      !.ch[channel].sector = an.sector])
      Allocated(an) ==
        IF ~an.ok THEN [d |-> an.d, st |-> ST_TIMEOUT]
        ELSE Linked(an, SetByte(SetByte(an.d.ram[b], 0, an.track),
                                1, an.sector))
  IN IF ~c.writing \/ d.current_error # "OK" THEN [d |-> d, st |-> ST_TIMEOUT]
     ELSE IF c.buf_len >= BLOCK
     THEN Allocated(alloc_next_block(d, c.track, c.sector, DATA_INTERLEAVE))
     ELSE Store(d)

write_direct(d, channel, byte) ==
  LET c == d.ch[channel] IN
  IF c.buf_len < BLOCK
  THEN [d |-> [RamSet(d, c.buf, c.buf_ptr, byte) EXCEPT
                 !.ch[channel].buf_ptr = @ + 1,
                 !.ch[channel].buf_len = @ + 1],
        st |-> ST_OK]
  ELSE [d |-> d, st |-> ST_TIMEOUT]

\* d64_drive_write that takes the EOI of a file channel for the end of the
\* data and does not store the byte that carries it
d64_drive_write_eoi_not_stored(d, channel, byte, eoi) ==
  LET mode == d.ch[channel].mode IN
  IF mode = "FREE"
  THEN [d |-> IF d.current_error = "OK"
              THEN d64_drive_set_error(d, "FILENOTOPEN", 0, 0) ELSE d,
        st |-> ST_TIMEOUT]
  ELSE IF mode = "COMMAND" THEN write_command(d, byte, eoi)
  ELSE IF mode = "DIRECTORY"
  THEN [d |-> d64_drive_set_error(d, "WRITEFILEOPEN", 0, 0), st |-> ST_TIMEOUT]
  ELSE IF mode = "FILE"
  THEN IF eoi THEN [d |-> d, st |-> ST_OK] ELSE write_file(d, channel, byte)
  ELSE IF mode = "DIRECT" THEN write_direct(d, channel, byte)
  ELSE [d |-> d, st |-> ST_TIMEOUT]

d64_drive_write(d, channel, byte, eoi) ==
  LET mode == d.ch[channel].mode IN
  IF mode = "FREE"
  THEN [d |-> IF d.current_error = "OK"
              THEN d64_drive_set_error(d, "FILENOTOPEN", 0, 0) ELSE d,
        st |-> ST_TIMEOUT]
  ELSE IF mode = "COMMAND" THEN write_command(d, byte, eoi)
  ELSE IF mode = "DIRECTORY"
  THEN [d |-> d64_drive_set_error(d, "WRITEFILEOPEN", 0, 0), st |-> ST_TIMEOUT]
  ELSE IF mode = "FILE" THEN write_file(d, channel, byte)
  ELSE IF mode = "DIRECT" THEN write_direct(d, channel, byte)
  ELSE [d |-> d, st |-> ST_TIMEOUT]

(***************************************************************************)
(* The image file and its descriptor (image_file_desc_t), in the geometry  *)
(* of the real formats.  A host file is [sig, nt, size, ei_bad]: whether   *)
(* its first six bytes are the X64 signature, its byte 7, its size in      *)
(* bytes, and whether the error info it carries marks the BAM sector bad.  *)
(* The sector contents stay in drive.img, in the model's geometry.         *)
(***************************************************************************)
NUM_SECTORS_35 == 683
NUM_SECTORS_40 == 768
NUM_SECTORS_D81 == 3200
D64_SIZE_35 == 174848
D64_SIZE_35_ERR == 175531
D64_SIZE_40 == 196608
D64_SIZE_40_ERR == 197376
D81_SIZE == 819200
D81_SIZE_ERR == 822400
D81_SECTORS_PER_TRACK == 40
D81_NUM_TRACKS == 80
D81_DIR_TRACK == 40
\* DIR_TRACK of the 1541
DIR_TRACK_1541 == 18
X64_HEADER == 64
\* 0xFFFFFFFF, which is -1 as a uint32_t; the offsets of the largest image
\* stay below 2^20, so that the 32 bit arithmetic of the source never wraps
INVALID == -1

\* num_sectors[41] and accum_num_sectors[41]; entry [track + 1] is the
\* source's entry [track]
num_sectors_1541 ==
  <<0,
    21,21,21,21,21,21,21,21,21,21,21,21,21,21,21,21,21,
    19,19,19,19,19,19,19,
    18,18,18,18,18,18,
    17,17,17,17,17,
    17,17,17,17,17>>
accum_num_sectors ==
  <<0,
    0,21,42,63,84,105,126,147,168,189,210,231,252,273,294,315,336,
    357,376,395,414,433,452,471,
    490,508,526,544,562,580,
    598,615,632,649,666,
    683,700,717,734,751>>

\* the descriptor after memset(drive, 0, ...)
ZeroDesc ==
  [type |-> "D64", header_size |-> 0, num_tracks |-> 0,
   has_error_info |-> FALSE]

\* d64_offset_from_ts with the bound on the sector left out
d64_offset_from_ts_any_sector(desc, track, sector) ==
  IF desc.type = "D81"
  THEN IF track < 1 \/ track > D81_NUM_TRACKS THEN INVALID
       ELSE (((track - 1) * D81_SECTORS_PER_TRACK + sector) * 256
               + desc.header_size)
  ELSE IF track < 1 \/ track > desc.num_tracks THEN INVALID
  ELSE ((accum_num_sectors[track + 1] + sector) * 256
          + desc.header_size)

d64_offset_from_ts(desc, track, sector) ==
  IF desc.type = "D81"
  THEN IF \/ track < 1 \/ track > D81_NUM_TRACKS
          \/ sector < 0 \/ sector >= D81_SECTORS_PER_TRACK
       THEN INVALID
       ELSE (((track - 1) * D81_SECTORS_PER_TRACK + sector) * 256
               + desc.header_size)
  ELSE IF track < 1 \/ track > desc.num_tracks THEN INVALID
  ELSE IF sector < 0 \/ sector >= num_sectors_1541[track + 1] THEN INVALID
  ELSE ((accum_num_sectors[track + 1] + sector) * 256
          + desc.header_size)

\* parse_image_file telling D64 from D81 by the size alone
parse_image_file_by_size(desc, file) ==
  IF file.size < X64_HEADER THEN [ok |-> FALSE, desc |-> desc]
  ELSE IF file.size = D81_SIZE \/ file.size = D81_SIZE_ERR
  THEN [ok |-> TRUE,
        desc |-> [type |-> "D81", header_size |-> 0,
                  num_tracks |-> D81_NUM_TRACKS,
                  has_error_info |-> (file.size = D81_SIZE_ERR)]]
  ELSE IF file.size \in {D64_SIZE_35, D64_SIZE_35_ERR, D64_SIZE_40,
                         D64_SIZE_40_ERR}
  THEN [ok |-> TRUE,
        desc |-> [type |-> "D64", header_size |-> 0,
                  num_tracks |-> IF file.size = D64_SIZE_40
                                      \/ file.size = D64_SIZE_40_ERR
                                 THEN 40 ELSE 35,
                  has_error_info |-> (file.size = D64_SIZE_35_ERR
                                        \/ file.size = D64_SIZE_40_ERR)]]
  ELSE [ok |-> FALSE, desc |-> desc]

\* parse_image_file: [ok, desc], desc being drive->desc as the call leaves
\* it.  The disk ID it reads is not modelled.
parse_image_file(desc, file) ==
  IF file.size < X64_HEADER THEN [ok |-> FALSE, desc |-> desc]
  ELSE IF file.sig
  THEN [ok |-> ~(file.nt < 35 \/ file.nt > 40),
        desc |-> [type |-> "X64", header_size |-> X64_HEADER,
                  num_tracks |-> file.nt,
                  has_error_info |->
                    IF file.nt < 35 \/ file.nt > 40 THEN desc.has_error_info
                    ELSE FALSE]]
  ELSE IF file.size = D81_SIZE \/ file.size = D81_SIZE_ERR
  THEN [ok |-> TRUE,
        desc |-> [type |-> "D81", header_size |-> 0,
                  num_tracks |-> D81_NUM_TRACKS,
                  has_error_info |-> (file.size = D81_SIZE_ERR)]]
  ELSE IF file.size \in {D64_SIZE_35, D64_SIZE_35_ERR, D64_SIZE_40,
                         D64_SIZE_40_ERR}
  THEN [ok |-> TRUE,
        desc |-> [type |-> "D64", header_size |-> 0,
                  num_tracks |-> IF file.size = D64_SIZE_40
                                      \/ file.size = D64_SIZE_40_ERR
                                 THEN 40 ELSE 35,
                  has_error_info |-> (file.size = D64_SIZE_35_ERR
                                        \/ file.size = D64_SIZE_40_ERR)]]
  ELSE [ok |-> FALSE, desc |-> desc]

\* the error read_sector finds for a sector of the file, "OK" for none: the
\* sector has to be in the descriptor's range and inside the file, and the
\* error info, where the image has it, must not mark it.  bad says whether
\* the error info marks this sector (as a header block not found).
file_sector_error(desc, file, track, sector, bad) ==
  IF d64_offset_from_ts(desc, track, sector) = INVALID THEN "ILLEGALTS"
  ELSE IF d64_offset_from_ts(desc, track, sector) + 256 > file.size
  THEN "READ22"
  ELSE IF desc.has_error_info /\ bad THEN "READ20"
  ELSE "OK"

\* the image file of the model's stock disk: a 35 track D64
StockFile ==
  [sig |-> FALSE, nt |-> 0, size |-> D64_SIZE_35, ei_bad |-> FALSE]

(***************************************************************************)
(* d64_drive_mount / d64_drive_unmount.  how is the way the host lets the  *)
(* image file be opened: "rw", "ro" (only the read-only open succeeds) or  *)
(* "none" (no open succeeds).                                              *)
(***************************************************************************)
d64_drive_unmount(d) ==
  LET d1 == IF d.file_open
            THEN [flush_bam(close_all_channels(d)) EXCEPT !.file_open = FALSE]
            ELSE d
  IN d64_drive_set_error([d1 EXCEPT !.ready = FALSE], "NOTREADY", 0, 0)

\* d64_drive_mount for the host file file: [d, ok].  The BAM of a D81 is
\* read from sectors 1 and 2 of its directory track, the error info of the
\* second being clean.
d64_drive_mount_file(d, how, file) ==
  LET Failed(d1) == [d |-> [d1 EXCEPT !.file_open = FALSE], ok |-> FALSE]
      BamRead(d1, err, track, sector) ==
        IF err # "OK"
        THEN Failed(d64_drive_set_error(d1, err, track, sector))
        ELSE [d |-> d64_drive_set_error(
                      [reread_bam([d1 EXCEPT !.file_open = TRUE,
                                             !.num_tracks =
                                               IF d1.desc.num_tracks > 35
                                               THEN ExtTrack ELSE MaxTrack])
                         EXCEPT !.bam_dirty = FALSE, !.ready = TRUE],
                      "OK", 0, 0),
              ok |-> TRUE]
      Second(d1, err) ==
        IF err # "OK" THEN BamRead(d1, err, D81_DIR_TRACK, 1)
        ELSE BamRead(d1,
                     file_sector_error(d1.desc, file, D81_DIR_TRACK, 2, FALSE),
                     D81_DIR_TRACK, 2)
      Parsed(d1, p) ==
        IF ~p.ok THEN Failed([d1 EXCEPT !.desc = p.desc])
        ELSE IF p.desc.type = "D81"
        THEN Second([d1 EXCEPT !.desc = p.desc],
                    file_sector_error(p.desc, file, D81_DIR_TRACK, 1,
                                      file.ei_bad))
        ELSE BamRead([d1 EXCEPT !.desc = p.desc],
                     file_sector_error(p.desc, file, DIR_TRACK_1541, 0,
                                       file.ei_bad),
                     DIR_TRACK_1541, 0)
      Opened(d1) ==
        IF how = "none"
        THEN [d |-> [d1 EXCEPT !.write_protected = TRUE], ok |-> FALSE]
        ELSE Parsed([d1 EXCEPT !.write_protected = (how = "ro")],
                    parse_image_file(d1.desc, file))
  IN Opened(d64_drive_unmount(d))

d64_drive_mount(d, how) == d64_drive_mount_file(d, how, StockFile).d

(***************************************************************************)
(* The IEC bus controller (iec_dos.c).  A bus operation takes the bus and  *)
(* the drive and gives [bus, d, st, opens]: the bus and the drive after    *)
(* the call, the status returned, and the number of d64_drive_open calls   *)
(* the operation made.  name_buf holds the name_len bytes received so far. *)
(* stray is set by a store that lands behind the IEC_NAMEBUF_LENGTH bytes   *)
(* of name_buf, on the members of iec_bus that follow it.                  *)
(***************************************************************************)
IEC_NAMEBUF_LENGTH == 256
CMD_DATA == 96
CMD_CLOSE == 224
CMD_OPEN == 240
ATN_LISTEN == 32
ATN_UNLISTEN == 48
ATN_TALK == 64
ATN_UNTALK == 80

\* iec_listen without the test of the device number
iec_listen_any_device(bus, d, device) ==
  IF d.ready
  THEN [bus |-> [bus EXCEPT !.listener = "drive", !.listener_active = TRUE],
        d |-> d, st |-> ST_OK, opens |-> 0]
  ELSE [bus |-> [bus EXCEPT !.listener_active = FALSE],
        d |-> d, st |-> ST_NOTPRESENT, opens |-> 0]

iec_listen(bus, d, device) ==
  IF device = 8 /\ d.ready
  THEN [bus |-> [bus EXCEPT !.listener = "drive", !.listener_active = TRUE],
        d |-> d, st |-> ST_OK, opens |-> 0]
  ELSE [bus |-> [bus EXCEPT !.listener_active = FALSE],
        d |-> d, st |-> ST_NOTPRESENT, opens |-> 0]

iec_talk(bus, d, device) ==
  IF device = 8 /\ d.ready
  THEN [bus |-> [bus EXCEPT !.talker = "drive", !.talker_active = TRUE],
        d |-> d, st |-> ST_OK, opens |-> 0]
  ELSE [bus |-> [bus EXCEPT !.talker_active = FALSE],
        d |-> d, st |-> ST_NOTPRESENT, opens |-> 0]

\* the terminating zero goes to name_buf[at]: a store behind the buffer
\* when at is not below IEC_NAMEBUF_LENGTH
terminate_name(bus, at) ==
  [bus EXCEPT !.stray = @ \/ at >= IEC_NAMEBUF_LENGTH]

iec_unlisten(bus, d) ==
  IF bus.listener_active /\ bus.received_cmd = CMD_OPEN /\ bus.name_len > 0
  THEN IF bus.listener # "NULL"
       THEN [bus |-> [terminate_name(bus, bus.name_len) EXCEPT
                        !.name_len = 0, !.name_buf = <<>>,
                        !.listener_active = FALSE],
             d |-> d64_drive_open([d EXCEPT !.led = "ON"], bus.sec_addr,
                                  bus.name_buf),
             st |-> ST_OK, opens |-> 1]
       ELSE [bus |-> [terminate_name(bus, bus.name_len) EXCEPT
                        !.name_len = 0, !.name_buf = <<>>,
                        !.listener_active = FALSE],
             d |-> d, st |-> ST_OK, opens |-> 0]
  ELSE [bus |-> [bus EXCEPT !.listener_active = FALSE],
        d |-> d, st |-> ST_OK, opens |-> 0]

iec_untalk(bus, d) ==
  [bus |-> [bus EXCEPT !.talker_active = FALSE], d |-> d, st |-> ST_OK,
   opens |-> 0]

iec_sec_listen(bus, d) ==
  IF bus.received_cmd = CMD_OPEN
  THEN [bus |-> [bus EXCEPT !.name_buf = <<>>, !.name_len = 0],
        d |-> d, st |-> ST_OK, opens |-> 0]
  ELSE IF bus.received_cmd = CMD_CLOSE
  THEN [bus |-> bus,
        d |-> d64_drive_close(
                IF d.led # "ERROR_FLASH" THEN [d EXCEPT !.led = "OFF"] ELSE d,
                bus.sec_addr),
        st |-> ST_OK, opens |-> 0]
  ELSE [bus |-> bus, d |-> d, st |-> ST_OK, opens |-> 0]

iec_open_out(bus, d, byte, eoi) ==
  LET b1 == IF bus.name_len < IEC_NAMEBUF_LENGTH
            THEN [bus EXCEPT !.name_buf = Append(@, byte), !.name_len = @ + 1]
            ELSE bus
  IN
  IF eoi
  THEN [bus |-> terminate_name(b1, b1.name_len),
        d |-> d64_drive_open([d EXCEPT !.led = "ON"], b1.sec_addr, b1.name_buf),
        st |-> ST_OK, opens |-> 1]
  ELSE [bus |-> b1, d |-> d, st |-> ST_OK, opens |-> 0]

iec_data_out(bus, d, byte, eoi) ==
  LET Written(w) == [bus |-> bus, d |-> w.d, st |-> w.st, opens |-> 0]
  IN Written(d64_drive_write(d, bus.sec_addr, byte, eoi))

iec_out(bus, d, byte, eoi) ==
  IF bus.listener_active /\ bus.received_cmd = CMD_OPEN
  THEN iec_open_out(bus, d, byte, eoi)
  ELSE IF bus.listener_active /\ bus.received_cmd = CMD_DATA
  THEN iec_data_out(bus, d, byte, eoi)
  ELSE [bus |-> bus, d |-> d, st |-> ST_TIMEOUT, opens |-> 0]

iec_out_atn(bus, d, byte) ==
  LET cleared == [bus EXCEPT !.received_cmd = 0, !.sec_addr = 0]
      code == byte - (byte % 16)
      Unlistened(u) ==
        [u EXCEPT !.bus = [u.bus EXCEPT !.received_cmd = 0, !.sec_addr = 0,
                                        !.listening = FALSE]]
  IN
  IF code = ATN_LISTEN
  THEN iec_listen([cleared EXCEPT !.listening = TRUE], d, byte % 16)
  ELSE IF code = ATN_UNLISTEN THEN Unlistened(iec_unlisten(bus, d))
  ELSE IF code = ATN_TALK
  THEN iec_talk([cleared EXCEPT !.listening = FALSE], d, byte % 16)
  ELSE IF code = ATN_UNTALK
  THEN iec_untalk([cleared EXCEPT !.listening = FALSE], d)
  ELSE [bus |-> bus, d |-> d, st |-> ST_TIMEOUT, opens |-> 0]

iec_out_sec(bus, d, byte) ==
  IF bus.listening
  THEN IF bus.listener_active
       THEN iec_sec_listen([bus EXCEPT !.sec_addr = byte % 16,
                                       !.received_cmd = byte - (byte % 16)], d)
       ELSE [bus |-> bus, d |-> d, st |-> ST_TIMEOUT, opens |-> 0]
  ELSE IF bus.talker_active
       THEN [bus |-> [bus EXCEPT !.sec_addr = byte % 16,
                                 !.received_cmd = CMD_DATA],
             d |-> d, st |-> ST_OK, opens |-> 0]
       ELSE [bus |-> bus, d |-> d, st |-> ST_TIMEOUT, opens |-> 0]

\* [bus, d, st, byte]
iec_in(bus, d) ==
  LET Got(r) == [bus |-> bus, d |-> r.d, st |-> r.st, byte |-> r.byte]
  IN IF bus.talker_active /\ bus.received_cmd = CMD_DATA
     THEN Got(d64_drive_read(d, bus.sec_addr))
     ELSE [bus |-> bus, d |-> d, st |-> ST_TIMEOUT, byte |-> 0]

\* iec_reset once the bus is initialized: [bus, d]
iec_reset(bus, d) ==
  [bus |-> [bus EXCEPT !.listener_active = FALSE, !.talker_active = FALSE,
                       !.listening = FALSE, !.name_len = 0, !.name_buf = <<>>],
   d |-> IF d.ready THEN d64_drive_reset(d) ELSE d]

(***************************************************************************)
(* The KERNAL traps (iec_trap.c): traps_enabled and trap_initialized, and   *)
(* the addresses of the KERNAL's IEC routines that are trapped.            *)
(***************************************************************************)
KERNAL_TALK_IMPL == 60681
KERNAL_LISTEN_IMPL == 60684
KERNAL_SECOND_IMPL == 60857
KERNAL_TKSA_IMPL == 60871
KERNAL_CIOUT_IMPL == 60893
KERNAL_UNTLK_IMPL == 60911
KERNAL_UNLSN_IMPL == 60926
KERNAL_ACPTR_IMPL == 60947

\* the initializers of the two static flags
iec_trap_static == [traps_enabled |-> TRUE, trap_initialized |-> FALSE]

iec_trap_init(t) ==
  IF t.trap_initialized THEN t
  ELSE [t EXCEPT !.traps_enabled = TRUE, !.trap_initialized = TRUE]

iec_trap_set_enabled(t, enabled) == [t EXCEPT !.traps_enabled = enabled]

\* iec_trap_check answering for every address as it does elsewhere for a
\* KERNAL routine
iec_trap_check_any_address(t, pc) == t.traps_enabled /\ t.trap_initialized

iec_trap_check(t, pc) ==
  IF ~t.traps_enabled \/ ~t.trap_initialized THEN FALSE
  ELSE pc \in {KERNAL_TALK_IMPL, KERNAL_LISTEN_IMPL, KERNAL_SECOND_IMPL,
               KERNAL_TKSA_IMPL, KERNAL_CIOUT_IMPL, KERNAL_UNTLK_IMPL,
               KERNAL_UNLSN_IMPL, KERNAL_ACPTR_IMPL}

(***************************************************************************)
(* The emulated CPU as iec_trap_process sees it: the registers A, SP and P *)
(* (status) and the RAM, of which the model keeps the zero page locations  *)
(* the traps use and the cells of the stack page (page 1) around its ends. *)
(***************************************************************************)
C64_STATUS == 144
C64_DESSION == 151
C64_FA == 186
C64_SA == 185
C64_SENESSION == 163
STACK_PAGE == 256
StackCells == {0, 1, 2, 3, 252, 253, 254, 255}
RamCells ==
  {C64_STATUS, C64_DESSION, C64_FA, C64_SA, C64_SENESSION}
    \cup {STACK_PAGE + k : k \in StackCells}
cpu_reset ==
  [a |-> 0, sp |-> 255, status |-> 0, ram |-> [c \in RamCells |-> 0]]

\* | and & on bytes
RECURSIVE BitOr(_, _)
BitOr(x, y) ==
  IF x = 0 THEN y ELSE IF y = 0 THEN x
  ELSE (IF x % 2 = 1 \/ y % 2 = 1 THEN 1 ELSE 0)
         + 2 * BitOr(x \div 2, y \div 2)
RECURSIVE BitAnd(_, _)
BitAnd(x, y) ==
  IF x = 0 \/ y = 0 THEN 0
  ELSE (IF x % 2 = 1 /\ y % 2 = 1 THEN 1 ELSE 0)
         + 2 * BitAnd(x \div 2, y \div 2)

\* pop_address popping one byte only
pop_address_one_byte(sp, ram) ==
  [sp |-> (sp + 1) % 256,
   lo_at |-> STACK_PAGE + ((sp + 1) % 256),
   hi_at |-> STACK_PAGE + ((sp + 1) % 256),
   value |-> ram[STACK_PAGE + ((sp + 1) % 256)] * 256
               + ram[STACK_PAGE + ((sp + 1) % 256)]]

\* pop_address: [sp, lo_at, hi_at, value], sp being the uint8_t *sp after
\* the call, lo_at and hi_at the indexes of ram it read
pop_address(sp, ram) ==
  [sp |-> (sp + 2) % 256,
   lo_at |-> STACK_PAGE + ((sp + 1) % 256),
   hi_at |-> STACK_PAGE + ((sp + 2) % 256),
   value |-> ram[STACK_PAGE + ((sp + 2) % 256)] * 256
               + ram[STACK_PAGE + ((sp + 1) % 256)]]

\* "return pop_address(sp, ram) + 1" of a handler whose bus call gave r, c
\* being the CPU as the handler left it: [cpu, bus, d, st, pc, lo_at, hi_at].
\* The sum is cut to the uint16_t the handler returns.
trap_return(c, r) ==
  LET Popped(p) ==
        [cpu |-> [c EXCEPT !.sp = p.sp], bus |-> r.bus, d |-> r.d,
         st |-> r.st, pc |-> (p.value + 1) % 65536,
         lo_at |-> p.lo_at, hi_at |-> p.hi_at]
  IN Popped(pop_address(c.sp, c.ram))

trap_listen(c, bus, d) ==
  LET Sent(r) ==
        trap_return(
          [c EXCEPT !.ram[C64_FA] = c.a,
                    !.ram[C64_STATUS] = BitOr(@, r.st),
                    !.ram[C64_DESSION] = BitOr(@, 128)], r)
  IN Sent(iec_out_atn(bus, d, 32 + (c.a % 32)))

trap_talk(c, bus, d) ==
  LET Sent(r) ==
        trap_return(
          [c EXCEPT !.ram[C64_FA] = c.a,
                    !.ram[C64_STATUS] = BitOr(@, r.st),
                    !.ram[C64_DESSION] = BitOr(@, 64)], r)
  IN Sent(iec_out_atn(bus, d, 64 + (c.a % 32)))

trap_second(c, bus, d) ==
  LET Sent(r) ==
        trap_return(
          [c EXCEPT !.ram[C64_SA] = c.a % 16,
                    !.ram[C64_STATUS] = BitOr(@, r.st)], r)
  IN Sent(iec_out_sec(bus, d, c.a))

trap_tksa(c, bus, d) ==
  LET Sent(r) ==
        trap_return(
          [c EXCEPT !.ram[C64_SA] = c.a % 16,
                    !.ram[C64_STATUS] = BitOr(@, r.st)], r)
  IN Sent(iec_out_sec(bus, d, c.a))

\* trap_ciout storing the status instead of or-ing it in
trap_ciout_stores_status(c, bus, d) ==
  LET Sent(r) == trap_return([c EXCEPT !.ram[C64_STATUS] = r.st], r)
  IN Sent(iec_out(bus, d, c.a, BitAnd(c.ram[C64_SENESSION], 128) # 0))

trap_ciout(c, bus, d) ==
  LET Sent(r) ==
        trap_return([c EXCEPT !.ram[C64_STATUS] = BitOr(@, r.st)], r)
  IN Sent(iec_out(bus, d, c.a, BitAnd(c.ram[C64_SENESSION], 128) # 0))

trap_untlk(c, bus, d) ==
  LET Sent(r) ==
        trap_return([c EXCEPT !.ram[C64_DESSION] = BitAnd(@, 255 - 64)], r)
  IN Sent(iec_out_atn(bus, d, 95))

trap_unlsn(c, bus, d) ==
  LET Sent(r) ==
        trap_return([c EXCEPT !.ram[C64_DESSION] = BitAnd(@, 255 - 128)], r)
  IN Sent(iec_out_atn(bus, d, 63))

\* junk is what the uninitialized local byte holds when iec_in stores
\* nothing into it
trap_acptr(c, bus, d, junk) ==
  LET Got(r) ==
        trap_return(
          [c EXCEPT !.a = IF r.byte = NOBYTE THEN junk ELSE r.byte,
                    !.ram[C64_STATUS] = BitOr(@, r.st),
                    !.status =
                      IF BitAnd(r.st, BitOr(ST_TIMEOUT, ST_NOTPRESENT)) # 0
                      THEN BitOr(@, 1) ELSE BitAnd(@, 254)], r)
  IN Got(iec_in(bus, d))

iec_trap_process(pc, c, bus, d, junk) ==
  IF pc = KERNAL_TALK_IMPL THEN trap_talk(c, bus, d)
  ELSE IF pc = KERNAL_LISTEN_IMPL THEN trap_listen(c, bus, d)
  ELSE IF pc = KERNAL_SECOND_IMPL THEN trap_second(c, bus, d)
  ELSE IF pc = KERNAL_TKSA_IMPL THEN trap_tksa(c, bus, d)
  ELSE IF pc = KERNAL_CIOUT_IMPL THEN trap_ciout(c, bus, d)
  ELSE IF pc = KERNAL_UNTLK_IMPL THEN trap_untlk(c, bus, d)
  ELSE IF pc = KERNAL_UNLSN_IMPL THEN trap_unlsn(c, bus, d)
  ELSE IF pc = KERNAL_ACPTR_IMPL THEN trap_acptr(c, bus, d, junk)
  ELSE [cpu |-> c, bus |-> bus, d |-> d, st |-> ST_OK, pc |-> pc,
        lo_at |-> 0, hi_at |-> 0]

(***************************************************************************)
(* State.  drive is struct iec_drive with the image file behind it, bus is *)
(* iec_bus.  obs is an observer that no operation reads: the last call     *)
(* made and its results, whether the bus has had the drive ready (only     *)
(* then does it hold the drive as listener or talker and can call it), and *)
(* for every channel the bytes a newly created file has taken so far.      *)
(***************************************************************************)
VARIABLES drive, bus, obs, trap, cpu
vars == <<drive, bus, obs, trap, cpu>>

\* the image files the host offers: a formatted empty disk, and a disk with
\* a closed file A and a closed, locked file B of one block each
OneByte == DataBlock(0, 2, [i \in 1..(BLOCK - 2) |-> IF i = 1 THEN 1 ELSE 0])
FileA == [ZeroEntry EXCEPT !.type = 128 + FTYPE_PRG, !.track = DIR_TRACK - 1,
                           !.sector = 0, !.name = <<ChA>>, !.num_blocks = 1]
FileB == [ZeroEntry EXCEPT !.type = 128 + 64 + FTYPE_SEQ, !.track = DIR_TRACK - 1,
                           !.sector = 1, !.name = <<ChB>>, !.num_blocks = 1]

FormatBam(used) ==
  [t \in 0..MaxTrack |->
     IF t = 0 THEN [cnt |-> DIR_TRACK, free |-> {}]
     ELSE LET f == {x \in 0..(num_sectors(t) - 1) : <<t, x>> \notin used}
          IN [cnt |-> Cardinality(f), free |-> f]]

BlankImage ==
  [ts \in AllTS |->
     IF ts = <<DIR_TRACK, 0>>
     THEN BamBlock(FormatBam({<<DIR_TRACK, 0>>, <<DIR_TRACK, FIRST_DIR_SECTOR>>}))
     ELSE IF ts = <<DIR_TRACK, FIRST_DIR_SECTOR>> THEN DirBlock(0, LAST, ZeroDir)
     ELSE DataBlock(0, 0, ZeroData)]

StockImage ==
  [ts \in AllTS |->
     IF ts = <<DIR_TRACK, 0>>
     THEN BamBlock(FormatBam({<<DIR_TRACK, 0>>, <<DIR_TRACK, FIRST_DIR_SECTOR>>,
                              <<DIR_TRACK - 1, 0>>, <<DIR_TRACK - 1, 1>>}))
     ELSE IF ts = <<DIR_TRACK, FIRST_DIR_SECTOR>>
     THEN DirBlock(0, LAST, [i \in 1..DirEntries |->
                               IF i = 1 THEN FileA ELSE IF i = 2 THEN FileB
                               ELSE ZeroEntry])
     ELSE IF ts \in {<<DIR_TRACK - 1, 0>>, <<DIR_TRACK - 1, 1>>} THEN OneByte
     ELSE DataBlock(0, 0, ZeroData)]

FreeChannel ==
  [mode |-> "FREE", writing |-> FALSE, buf_num |-> 0, buf |-> NULLBUF,
   buf_ptr |-> 0, buf_len |-> 0, track |-> 0, sector |-> 0, num_blocks |-> 0,
   dir_track |-> 0, dir_sector |-> 0, entry |-> 0]

\* the drive d64_drive_create returns, image being the host's image file
d64_drive_create(image) ==
  d64_drive_set_error(
    [led |-> "OFF", ready |-> FALSE, current_error |-> "OK", error_track |-> 0,
     error_sector |-> 0, error_read |-> 0, cmd_buf |-> <<>>, cmd_len |-> 0,
     file_open |-> FALSE, write_protected |-> TRUE, num_tracks |-> 0,
     desc |-> ZeroDesc,
     img |-> image, ram |-> ZeroRam, dir |-> DirBlock(0, 0, ZeroDir),
     bam |-> ZeroBam, bam_dirty |-> FALSE,
     ch |-> [c \in Channels |->
               IF c = 15 THEN [FreeChannel EXCEPT !.mode = "COMMAND"]
               ELSE FreeChannel],
     buf_free |-> [i \in Buffers |-> TRUE],
     hung |-> FALSE, fault |-> FALSE, stray |-> FALSE, mixed |-> FALSE],
    "STARTUP", 0, 0)

\* iec_init
iec_init ==
  [name_buf |-> <<>>, name_len |-> 0, listener |-> "NULL", talker |-> "NULL",
   listener_active |-> FALSE, talker_active |-> FALSE, listening |-> FALSE,
   received_cmd |-> 0, sec_addr |-> 0, stray |-> FALSE]

(***************************************************************************)
(* Bounds of the specifications and the observer.                          *)
(***************************************************************************)
\* reads and writes through a direct-access channel stop at this offset
MaxPtr == 2 * BLOCK
\* how often a channel may be opened for writing, and a scratch command sent
MaxWriteOpens == 2
MaxScratch == 1
\* the longest byte sequence written to the file of the data specification
MaxData == 4
\* the longest file name sent over the bus, and the most opens the observer
\* counts in one transaction
MaxName == 2
MaxOpens == 3

NoObs ==
  [attached |-> FALSE, wopens |-> 0, scratches |-> 0, data |-> <<>>,
   eoi |-> FALSE, opens |-> 0, named |-> FALSE, txn |-> "idle",
   op |-> "", call |-> 0, st |-> 0, cmd |-> <<>>, msg |-> <<>>,
   hit |-> FALSE, file |-> StockFile, how |-> "", ts |-> <<0, 0>>, off |-> 0,
   before |-> cpu_reset, rts |-> [pc |-> 0, lo_at |-> 0, hi_at |-> 0],
   frame |-> [listener |-> FALSE, lsec |-> FALSE,
              talker |-> FALSE, tsec |-> FALSE],
   sent |-> 0]

\* the observer's note of the call just made: op its kind, call the byte
\* that tells calls of a kind apart (the byte sent under ATN, the first
\* byte of a command), st the status the bus returned, cmd the text of a
\* command given with an open of channel 15
Note(o, op, call, st) ==
  [o EXCEPT !.op = op, !.call = call, !.st = st, !.cmd = <<>>]

Writer(d, c) == d.ch[c].mode = "FILE" /\ d.ch[c].writing

\* the drive has stopped: a loop that never ends, or a null pointer followed
Halted(d) == d.hung \/ d.fault

(***************************************************************************)
(* Actions at the drive's interface: the calls the bus and the host make   *)
(* on the drive, each a whole call.                                        *)
(***************************************************************************)
Mount(how) ==
  /\ ~Halted(drive)
  /\ drive' = d64_drive_mount(drive, how)
  /\ obs' = Note([obs EXCEPT !.attached = @ \/ drive'.ready], "mount", 0, 0)
  /\ UNCHANGED bus
  /\ UNCHANGED <<trap, cpu>>

Unmount ==
  /\ ~Halted(drive)
  /\ drive' = d64_drive_unmount(drive)
  /\ obs' = Note(obs, "unmount", 0, 0)
  /\ UNCHANGED bus
  /\ UNCHANGED <<trap, cpu>>

Reset ==
  /\ ~Halted(drive)
  /\ drive' = iec_reset(bus, drive).d
  /\ obs' = Note(obs, "reset", 0, 0)
  /\ UNCHANGED bus
  /\ UNCHANGED <<trap, cpu>>

Open(c, name) ==
  /\ ~Halted(drive) /\ obs.attached
  /\ LET Counted(d1, w, x) ==
           /\ obs.wopens + w <= MaxWriteOpens
           /\ obs.scratches + x <= MaxScratch
           /\ drive' = d1
           /\ obs' = [Note([obs EXCEPT !.wopens = @ + w,
                                        !.scratches = @ + x],
                           IF c = 15 THEN "command" ELSE "io",
                           IF c = 15 THEN NameByte(name, 0) ELSE 0, 0)
                        EXCEPT !.cmd = IF c = 15 THEN name ELSE <<>>]
         Opened(d1) ==
           Counted(d1, IF ~Writer(drive, c) /\ Writer(d1, c) THEN 1 ELSE 0,
                   IF c = 15 /\ NameByte(name, 0) = ChS THEN 1 ELSE 0)
     IN Opened(d64_drive_open([drive EXCEPT !.led = "ON"], c, name))
  /\ UNCHANGED bus
  /\ UNCHANGED <<trap, cpu>>

Close(c) ==
  /\ ~Halted(drive) /\ obs.attached
  /\ drive' = d64_drive_close(
                IF drive.led # "ERROR_FLASH" THEN [drive EXCEPT !.led = "OFF"]
                ELSE drive, c)
  /\ obs' = Note(obs, "io", 0, 0)
  /\ UNCHANGED bus
  /\ UNCHANGED <<trap, cpu>>

Read(c) ==
  /\ ~Halted(drive) /\ obs.attached
  /\ drive.ch[c].mode = "DIRECT" => drive.ch[c].buf_ptr < MaxPtr
  /\ drive' = d64_drive_read(drive, c).d
  /\ obs' = Note(obs, "io", 0, 0)
  /\ UNCHANGED bus
  /\ UNCHANGED <<trap, cpu>>

Write(c, byte, eoi) ==
  /\ ~Halted(drive) /\ obs.attached
  /\ drive.ch[c].mode = "DIRECT" => drive.ch[c].buf_ptr < MaxPtr
  /\ drive' = d64_drive_write(drive, c, byte, eoi).d
  /\ obs' = Note(obs, "io", 0, 0)
  /\ UNCHANGED bus
  /\ UNCHANGED <<trap, cpu>>

(***************************************************************************)
(* Spec, the file specification: files are created, replaced, appended to, *)
(* written, closed and scratched on a disk that holds a file A and a       *)
(* locked file B.                                                          *)
(***************************************************************************)
FileOpens ==
  {<<1, <<ChAt, ChColon, ChA>>>>, <<2, <<ChA, ChComma, ChA>>>>, <<1, <<ChC>>>>}
FileCommands == {<<ChS, ChColon, ChStar>>}
FileChannels == {1, 2}
FillByte == 1

Init ==
  /\ drive = d64_drive_create(StockImage)
  /\ bus = iec_init
  /\ obs = NoObs
  /\ trap = iec_trap_static
  /\ cpu = cpu_reset

Next ==
  \/ Mount("rw")
  \/ \E o \in FileOpens \cup {<<15, name>> : name \in FileCommands} :
        Open(o[1], o[2])
  \/ \E c \in FileChannels : Close(c)
  \/ \E c \in FileChannels : Write(c, FillByte, FALSE)

Spec == Init /\ [][Next]_vars

(***************************************************************************)
(* ChanSpec, the channel specification: a file channel and a direct-access *)
(* channel are opened, read, written and closed, commands are sent, and    *)
(* the drive is reset, mounted and unmounted.  A close notes "close" and   *)
(* its channel, and in obs.hit whether a channel other than 15 was open.   *)
(***************************************************************************)
ChanOpens == {<<0, <<ChA>>>>, <<2, <<ChHash>>>>}
ChanCommands == {<<ChI>>, <<ChU, ChJ>>}
ChanCloses == {0, 2, 15}
ChanReads == {0}
ChanWrites == {2}
MountKinds == {"rw", "ro", "none"}

ChanClose(c) ==
  /\ ~Halted(drive) /\ obs.attached
  /\ drive' = d64_drive_close(
                IF drive.led # "ERROR_FLASH" THEN [drive EXCEPT !.led = "OFF"]
                ELSE drive, c)
  /\ obs' = [Note(obs, "close", c, 0)
               EXCEPT !.hit = \E o \in Channels \ {15} :
                                drive.ch[o].mode # "FREE"]
  /\ UNCHANGED bus
  /\ UNCHANGED <<trap, cpu>>

ChanInit ==
  /\ drive = d64_drive_create(StockImage)
  /\ bus = iec_init
  /\ obs = NoObs
  /\ trap = iec_trap_static
  /\ cpu = cpu_reset

ChanNext ==
  \/ \E how \in MountKinds : Mount(how)
  \/ Unmount
  \/ Reset
  \/ \E o \in ChanOpens \cup {<<15, name>> : name \in ChanCommands} :
        Open(o[1], o[2])
  \/ \E c \in ChanCloses : ChanClose(c)
  \/ \E c \in ChanReads : Read(c)
  \/ \E c \in ChanWrites : Write(c, FillByte, FALSE)

ChanSpec == ChanInit /\ [][ChanNext]_vars

(***************************************************************************)
(* DataSpec, the data specification: a file A is created on channel 1 of   *)
(* an empty disk, takes up to MaxData bytes, is closed, and is opened and  *)
(* read on channel 0.  obs.data is the sequence of bytes the drive has     *)
(* accepted, obs.eoi whether the last write carried EOI.                   *)
(***************************************************************************)
DataBytes == 0..MaxByte

Create ==
  /\ obs.wopens = 0
  /\ Open(1, <<ChA>>)

Put(byte, eoi) ==
  /\ ~Halted(drive) /\ Writer(drive, 1)
  /\ Len(obs.data) < MaxData
  /\ LET Written(w) ==
           /\ drive' = w.d
           /\ obs' = Note([obs EXCEPT
                        !.data = IF w.st = ST_OK THEN Append(@, byte) ELSE @,
                        !.eoi = IF w.st = ST_OK THEN eoi ELSE @], "io", 0, 0)
     IN Written(d64_drive_write(drive, 1, byte, eoi))
  /\ UNCHANGED bus
  /\ UNCHANGED <<trap, cpu>>

Finish == Close(1)

Reopen == Open(0, <<ChA>>)

Get == Read(0)

Release == Close(0)

DataInit ==
  /\ drive = d64_drive_create(BlankImage)
  /\ bus = iec_init
  /\ obs = NoObs
  /\ trap = iec_trap_static
  /\ cpu = cpu_reset

DataNext ==
  \/ Mount("rw")
  \/ Create
  \/ \E byte \in DataBytes, eoi \in BOOLEAN : Put(byte, eoi)
  \/ Finish
  \/ Reopen
  \/ Get
  \/ Release

DataSpec == DataInit /\ [][DataNext]_vars

(***************************************************************************)
(* BusSpec, the bus specification: the KERNAL's calls on the bus.  The     *)
(* observer follows the transaction: obs.txn is "listen" after a LISTEN    *)
(* the drive answered, "open" after an OPEN secondary address, "ended"     *)
(* after the UNLISTEN that follows; obs.named says a file name byte was    *)
(* taken, obs.eoi that one carried EOI, obs.opens counts the calls of      *)
(* d64_drive_open since the LISTEN.                                        *)
(***************************************************************************)
AtnBytes ==
  {ATN_LISTEN + 8, ATN_LISTEN + 9, ATN_UNLISTEN + 15, ATN_TALK + 8,
   ATN_TALK + 9, ATN_UNTALK + 15}
SecBytes == {CMD_OPEN + 2, CMD_CLOSE + 2, CMD_DATA + 2}
NameBytes == {ChA, ChI}

Code(byte) == byte - (byte % 16)

Atn(byte) ==
  /\ ~Halted(drive)
  /\ LET Done(r) ==
           /\ bus' = r.bus
           /\ drive' = r.d
           /\ obs' =
                Note(IF Code(byte) = ATN_LISTEN
                     THEN [obs EXCEPT
                             !.opens = 0, !.named = FALSE, !.eoi = FALSE,
                             !.txn = IF r.bus.listener_active THEN "listen"
                                     ELSE "idle"]
                     ELSE IF Code(byte) = ATN_UNLISTEN
                     THEN [obs EXCEPT
                             !.opens = @ + r.opens,
                             !.txn = IF @ = "open" THEN "ended" ELSE "idle"]
                     ELSE [obs EXCEPT !.txn = "idle"],
                     "atn", byte, r.st)
     IN Done(iec_out_atn(bus, drive, byte))
  /\ UNCHANGED <<trap, cpu>>

Sec(byte) ==
  /\ ~Halted(drive)
  /\ LET Done(r) ==
           /\ bus' = r.bus
           /\ drive' = r.d
           /\ obs' = Note(IF /\ bus.listening /\ bus.listener_active
                             /\ obs.txn \in {"listen", "open"}
                          THEN [obs EXCEPT !.txn = IF Code(byte) = CMD_OPEN
                                                   THEN "open" ELSE "listen"]
                          ELSE obs,
                          "io", 0, r.st)
     IN Done(iec_out_sec(bus, drive, byte))
  /\ UNCHANGED <<trap, cpu>>

Out(byte, eoi) ==
  /\ ~Halted(drive)
  /\ bus.name_len < MaxName
  /\ LET name == bus.listener_active /\ bus.received_cmd = CMD_OPEN
         Done(r) ==
           /\ obs.opens + r.opens <= MaxOpens
           /\ bus' = r.bus
           /\ drive' = r.d
           /\ obs' = Note([obs EXCEPT !.opens = @ + r.opens,
                                      !.named = @ \/ name,
                                      !.eoi = @ \/ (name /\ eoi)],
                          "io", 0, r.st)
     IN Done(iec_out(bus, drive, byte, eoi))
  /\ UNCHANGED <<trap, cpu>>

In ==
  /\ ~Halted(drive)
  /\ LET Done(r) ==
           bus' = r.bus /\ drive' = r.d /\ obs' = Note(obs, "io", 0, r.st)
     IN Done(iec_in(bus, drive))
  /\ UNCHANGED <<trap, cpu>>

BusInit ==
  /\ drive = d64_drive_create(StockImage)
  /\ bus = iec_init
  /\ obs = NoObs
  /\ trap = iec_trap_static
  /\ cpu = cpu_reset

BusNext ==
  \/ Mount("rw")
  \/ \E byte \in AtnBytes : Atn(byte)
  \/ \E byte \in SecBytes : Sec(byte)
  \/ \E byte \in NameBytes, eoi \in BOOLEAN : Out(byte, eoi)
  \/ In

BusSpec == BusInit /\ [][BusNext]_vars

(***************************************************************************)
(* SwapSpec, the disk change specification: the host mounts and unmounts   *)
(* images while the KERNAL opens and closes a direct-access channel over   *)
(* the bus, so that an unmount can fall between the calls of one bus       *)
(* transaction.                                                            *)
(***************************************************************************)
SwapAtnBytes == {ATN_LISTEN + 8, ATN_UNLISTEN + 15}
SwapSecBytes == {CMD_OPEN + 2, CMD_CLOSE + 2}
SwapNameBytes == {ChHash}
SwapKinds == {"rw", "none"}

SwapInit ==
  /\ drive = d64_drive_create(StockImage)
  /\ bus = iec_init
  /\ obs = NoObs
  /\ trap = iec_trap_static
  /\ cpu = cpu_reset

SwapNext ==
  \/ \E how \in SwapKinds : Mount(how)
  \/ Unmount
  \/ \E byte \in SwapAtnBytes : Atn(byte)
  \/ \E byte \in SwapSecBytes : Sec(byte)
  \/ \E byte \in SwapNameBytes, eoi \in BOOLEAN : Out(byte, eoi)

SwapSpec == SwapInit /\ [][SwapNext]_vars

(***************************************************************************)
(* FlushSpec, the write-back specification: a file is created, written and *)
(* closed and files are scratched, which changes the BAM mirror, while the *)
(* drive is reset, initialized, mounted and unmounted, which writes the    *)
(* mirror back and reads it again.                                         *)
(***************************************************************************)
FlushOpens == {<<1, <<ChC>>>>}
FlushCommands == {<<ChS, ChColon, ChStar>>, <<ChI>>, <<ChU, ChJ>>}
FlushChannels == {1}
FlushKinds == {"rw", "ro"}

FlushInit ==
  /\ drive = d64_drive_create(StockImage)
  /\ bus = iec_init
  /\ obs = NoObs
  /\ trap = iec_trap_static
  /\ cpu = cpu_reset

FlushNext ==
  \/ \E how \in FlushKinds : Mount(how)
  \/ Unmount
  \/ Reset
  \/ \E o \in FlushOpens \cup {<<15, name>> : name \in FlushCommands} :
        Open(o[1], o[2])
  \/ \E c \in FlushChannels : Close(c)
  \/ \E c \in FlushChannels : Write(c, FillByte, FALSE)

FlushSpec == FlushInit /\ [][FlushNext]_vars

(***************************************************************************)
(* CmdSpec, the command specification: commands of every kind of the       *)
(* dispatch are sent while a file is being written on channel 1 and a      *)
(* direct-access channel is open on channel 2.                             *)
(***************************************************************************)
CmdOpens == {<<1, <<ChC>>>>, <<2, <<ChHash>>>>}
CmdCommands ==
  {<<ChB>>, <<ChB, ChMinus, ChR>>, <<ChM, ChMinus, ChR>>, <<ChV>>,
   <<ChN, ChColon, ChA>>, <<ChR, ChColon, ChA>>, <<ChC, ChColon, ChA>>,
   <<ChD>>, <<ChI>>}
CmdChannels == {1}

CmdInit ==
  /\ drive = d64_drive_create(StockImage)
  /\ bus = iec_init
  /\ obs = NoObs
  /\ trap = iec_trap_static
  /\ cpu = cpu_reset

CmdNext ==
  \/ Mount("rw")
  \/ \E o \in CmdOpens \cup {<<15, name>> : name \in CmdCommands} :
        Open(o[1], o[2])
  \/ \E c \in CmdChannels : Close(c)
  \/ \E c \in CmdChannels : Write(c, FillByte, FALSE)

CmdSpec == CmdInit /\ [][CmdNext]_vars

(***************************************************************************)
(* ErrSpec, the status specification: the error channel is read byte by    *)
(* byte between operations that set the error.  obs.msg is the message the *)
(* drive held when its first byte was read, obs.data the bytes read of it  *)
(* so far, obs.st the status of the last read.                             *)
(***************************************************************************)
ErrOpens == {<<0, <<ChA>>>>, <<0, <<ChC>>>>}
ErrCommands == {<<ChS, ChColon, ChA>>, <<ChM, ChMinus, ChR>>}
ErrChannels == {0}
ErrKinds == {"rw", "none"}

Status ==
  /\ ~Halted(drive) /\ obs.attached
  /\ LET Done(r, first) ==
           /\ drive' = r.d
           /\ obs' = [Note(obs, "status", 0, r.st) EXCEPT
                        !.data = IF first THEN <<r.byte>>
                                 ELSE Append(obs.data, r.byte),
                        !.msg = IF first THEN error_buf(drive) ELSE obs.msg]
     IN Done(d64_drive_read(drive, 15), drive.error_read = 0)
  /\ UNCHANGED bus
  /\ UNCHANGED <<trap, cpu>>

ErrInit ==
  /\ drive = d64_drive_create(StockImage)
  /\ bus = iec_init
  /\ obs = NoObs
  /\ trap = iec_trap_static
  /\ cpu = cpu_reset

ErrNext ==
  \/ \E how \in ErrKinds : Mount(how)
  \/ Reset
  \/ \E o \in ErrOpens \cup {<<15, name>> : name \in ErrCommands} :
        Open(o[1], o[2])
  \/ \E c \in ErrChannels : Close(c)
  \/ Status

ErrSpec == ErrInit /\ [][ErrNext]_vars

(***************************************************************************)
(* TrapSpec, the trap specification: the emulator initializes the traps,   *)
(* switches them on and off, and asks for program counter values whether   *)
(* they are trapped.  obs.call is the address asked for, obs.hit the       *)
(* answer.                                                                 *)
(***************************************************************************)
Routines ==
  {KERNAL_TALK_IMPL, KERNAL_LISTEN_IMPL, KERNAL_SECOND_IMPL, KERNAL_TKSA_IMPL,
   KERNAL_CIOUT_IMPL, KERNAL_UNTLK_IMPL, KERNAL_UNLSN_IMPL, KERNAL_ACPTR_IMPL}
\* the routines, the addresses next to them, and the ends of the address
\* space and of the KERNAL's IEC area
Addresses ==
  Routines \cup {pc - 1 : pc \in Routines} \cup {pc + 1 : pc \in Routines}
    \cup {0, 60672, 60960, 65535}

TrapInit ==
  /\ trap' = iec_trap_init(trap)
  /\ obs' = Note(obs, "trap_init", 0, 0)
  /\ UNCHANGED <<drive, bus, cpu>>

TrapSetEnabled(enabled) ==
  /\ trap' = iec_trap_set_enabled(trap, enabled)
  /\ obs' = Note(obs, "trap_set_enabled", 0, 0)
  /\ UNCHANGED <<drive, bus, cpu>>

TrapCheck(pc) ==
  /\ obs' = [Note(obs, "trap_check", pc, 0) EXCEPT
               !.hit = iec_trap_check(trap, pc)]
  /\ UNCHANGED <<drive, bus, trap, cpu>>

TrapSpecInit ==
  /\ drive = d64_drive_create(StockImage)
  /\ bus = iec_init
  /\ obs = NoObs
  /\ trap = iec_trap_static
  /\ cpu = cpu_reset

TrapNext ==
  \/ TrapInit
  \/ \E enabled \in BOOLEAN : TrapSetEnabled(enabled)
  \/ \E pc \in Addresses : TrapCheck(pc)

TrapSpec == TrapSpecInit /\ [][TrapNext]_vars

(***************************************************************************)
(* The emulated CPU reaches a trapped address and the emulator calls       *)
(* iec_trap_process.  What the CPU did since the trap before is the input: *)
(* A is a, SP is sp, the return address ret lies on the stack above SP,    *)
(* $90 holds st0 and bit 7 of $A3 is eoi; P and the rest of the RAM are    *)
(* zero.  obs.before is the CPU at the call, obs.rts the program counter    *)
(* returned and the two indexes of ram the pop read, obs.st the status of  *)
(* the handler's bus call.                                                 *)
(***************************************************************************)
Trap(pc, a, sp, ret, st0, eoi, junk) ==
  /\ ~Halted(drive)
  /\ iec_trap_check(trap, pc)
  /\ pc = KERNAL_CIOUT_IMPL => bus.name_len < MaxName
  /\ LET before ==
           [a |-> a, sp |-> sp, status |-> 0,
            ram |-> [c \in RamCells |->
                       IF c = STACK_PAGE + ((sp + 1) % 256) THEN ret % 256
                       ELSE IF c = STACK_PAGE + ((sp + 2) % 256)
                       THEN ret \div 256
                       ELSE IF c = C64_STATUS THEN st0
                       ELSE IF c = C64_SENESSION
                       THEN (IF eoi THEN 128 ELSE 0)
                       ELSE 0]]
         Done(r) ==
           /\ cpu' = r.cpu
           /\ bus' = r.bus
           /\ drive' = r.d
           /\ obs' = [Note(obs, "trap", pc, r.st) EXCEPT
                        !.before = before,
                        !.rts = [pc |-> r.pc, lo_at |-> r.lo_at,
                                 hi_at |-> r.hi_at]]
     IN Done(iec_trap_process(pc, before, bus, drive, junk))
  /\ UNCHANGED trap

(***************************************************************************)
(* PopSpec, the return specification: every trapped routine is reached     *)
(* with the stack pointer at and around both ends of the stack page and    *)
(* with return addresses up to $FFFF.  No image is mounted.                *)
(***************************************************************************)
\* <<sp, ret>>
PopStacks ==
  {<<0, 4660>>, <<1, 255>>, <<252, 65280>>, <<253, 4660>>, <<253, 65535>>,
   <<254, 0>>, <<254, 65535>>, <<255, 4660>>, <<255, 65535>>}
PopDevice == 8

PopInit ==
  /\ drive = d64_drive_create(StockImage)
  /\ bus = iec_init
  /\ obs = NoObs
  /\ trap = iec_trap_static
  /\ cpu = cpu_reset

PopNext ==
  \/ TrapInit
  \/ \E pc \in Routines, stack \in PopStacks :
       Trap(pc, PopDevice, stack[1], stack[2], 0, FALSE, 0)

PopSpec == PopInit /\ [][PopNext]_vars

(***************************************************************************)
(* ProcSpec, the status specification: the KERNAL talks to the drive       *)
(* through the traps, closing a channel, sending a one byte command or a   *)
(* byte no one listens to, and reading the error channel and a channel     *)
(* that is not open, with $90 cleared or not between the calls.            *)
(* A call is <<pc, a, eoi, junk>>.                                         *)
(***************************************************************************)
ProcCalls ==
  ({KERNAL_LISTEN_IMPL} \X {8, 9} \X {FALSE} \X {0})
    \cup ({KERNAL_TALK_IMPL} \X {8} \X {FALSE} \X {0})
    \cup ({KERNAL_SECOND_IMPL} \X {CMD_CLOSE + 2} \X {FALSE} \X {0})
    \cup ({KERNAL_TKSA_IMPL} \X {CMD_DATA + 15, CMD_DATA + 2}
            \X {FALSE} \X {0})
    \cup ({KERNAL_CIOUT_IMPL} \X {ChI} \X {TRUE} \X {0})
    \cup ({KERNAL_UNTLK_IMPL, KERNAL_UNLSN_IMPL} \X {0} \X {FALSE} \X {0})
    \cup ({KERNAL_ACPTR_IMPL} \X {0} \X {FALSE} \X {0, 255})
\* $90 as the KERNAL cleared it, and with the EOF and time out bits set
ProcStatus == {0, 66}
ProcSp == 253
ProcRet == 4660

ProcInit ==
  /\ drive = d64_drive_create(StockImage)
  /\ bus = iec_init
  /\ obs = NoObs
  /\ trap = iec_trap_static
  /\ cpu = cpu_reset

ProcNext ==
  \/ TrapInit
  \/ Mount("rw")
  \/ \E call \in ProcCalls, st0 \in ProcStatus :
       Trap(call[1], call[2], ProcSp, ProcRet, st0, call[3], call[4])

ProcSpec == ProcInit /\ [][ProcNext]_vars

(***************************************************************************)
(* DetectSpec, the format detection specification: the host mounts files   *)
(* of every kind and unmounts.  obs.file and obs.how are the file and the  *)
(* way it opens, obs.hit is what d64_drive_mount returned.                 *)
(***************************************************************************)
MountFile(how, file) ==
  /\ ~Halted(drive)
  /\ drive' = d64_drive_mount_file(drive, how, file).d
  /\ obs' = [Note([obs EXCEPT !.attached = @ \/ drive'.ready],
                  "mount_file", 0, 0)
               EXCEPT !.file = file, !.how = how,
                      !.hit = d64_drive_mount_file(drive, how, file).ok]
  /\ UNCHANGED <<bus, trap, cpu>>

\* the sizes of the formats, sizes next to them, an X64 of 35 tracks, a
\* bare X64 header and a file shorter than a header
DetectSizes ==
  {10, X64_HEADER, D64_SIZE_35, D64_SIZE_35 + 1, D64_SIZE_35 + X64_HEADER,
   D64_SIZE_35_ERR, D64_SIZE_40, D64_SIZE_40_ERR, D81_SIZE, D81_SIZE_ERR}
DetectTracks == {34, 35, 40, 41}
\* byte 7 matters in a file with the signature only, and the error info
\* in a file that is long enough to hold it
DetectFiles ==
  {f \in [sig : BOOLEAN, nt : DetectTracks, size : DetectSizes,
          ei_bad : BOOLEAN] :
     /\ ~f.sig => f.nt = 35
     /\ f.ei_bad =>
          f.size \in {D64_SIZE_35_ERR, D64_SIZE_40_ERR, D81_SIZE_ERR}}

DetectInit ==
  /\ drive = d64_drive_create(StockImage)
  /\ bus = iec_init
  /\ obs = NoObs
  /\ trap = iec_trap_static
  /\ cpu = cpu_reset

DetectNext ==
  \/ \E how \in MountKinds, file \in DetectFiles : MountFile(how, file)
  \/ Unmount

DetectSpec == DetectInit /\ [][DetectNext]_vars

(***************************************************************************)
(* OffsetSpec, the offset specification: the host mounts an image of each  *)
(* format and asks for the offsets of track/sector pairs in and around the *)
(* ranges of all formats, each pair next to the pair asked for before, so  *)
(* that every pair is asked for under every image.  obs.ts is the pair,    *)
(* obs.off the offset.                                                     *)
(***************************************************************************)
Seek(track, sector) ==
  /\ obs' = [Note(obs, "offset", 0, 0)
               EXCEPT !.ts = <<track, sector>>,
                      !.off = d64_offset_from_ts(drive.desc, track, sector)]
  /\ UNCHANGED <<drive, bus, trap, cpu>>

\* an X64 of 37 tracks
X64_SIZE_37 == 183616
OffsetFiles ==
  {StockFile,
   [StockFile EXCEPT !.size = D64_SIZE_35_ERR],
   [StockFile EXCEPT !.size = D64_SIZE_40],
   [StockFile EXCEPT !.sig = TRUE, !.nt = 37, !.size = X64_SIZE_37],
   [StockFile EXCEPT !.size = D81_SIZE]}
SeekTracks == (0 - 1)..(D81_NUM_TRACKS + 2)
SeekSectors == (0 - 1)..(D81_SECTORS_PER_TRACK + 1)

OffsetInit ==
  /\ drive = d64_drive_create(StockImage)
  /\ bus = iec_init
  /\ obs = NoObs
  /\ trap = iec_trap_static
  /\ cpu = cpu_reset

OffsetNext ==
  \/ \E file \in OffsetFiles : MountFile("rw", file)
  \/ \E track \in SeekTracks \cap ((obs.ts[1] - 1)..(obs.ts[1] + 1)),
        sector \in SeekSectors \cap ((obs.ts[2] - 1)..(obs.ts[2] + 1)) :
       Seek(track, sector)

OffsetSpec == OffsetInit /\ [][OffsetNext]_vars

(***************************************************************************)
(* The block allocator on its own.  The BAM is a sector of the image, so   *)
(* any bytes can stand in it: AllocInit mounts images whose BAM holds any  *)
(* bitmap and, for each track, a counter that is right, or zero over free  *)
(* sectors, or one over none.  A 40-track image also shows the allocator   *)
(* the bytes behind the 35 entries (the disk name) as the entry of its     *)
(* tracks 36..40: TailEntries.  One call is made on each mounted image;    *)
(* obs.before is the drive before the call, obs.ts the track and sector    *)
(* passed, obs.call the interleave, obs.st the value returned, obs.hit the *)
(* track and sector handed back.                                           *)
(***************************************************************************)
ExtFile == [StockFile EXCEPT !.size = D64_SIZE_40]

TrackEntries(track) ==
  {e \in [cnt : 0..SecPerTrack, free : SUBSET (0..(num_sectors(track) - 1))] :
     \/ e.cnt = Cardinality(e.free)
     \/ e.cnt = 0
     \/ e.cnt = 1 /\ e.free = {}}

TailEntries ==
  {[cnt |-> 0, free |-> {}], [cnt |-> ChA, free |-> {}],
   [cnt |-> ChA, free |-> {0}]}

AllocBams ==
  {[t \in 0..MaxTrack |->
      IF t = 0 THEN [cnt |-> DIR_TRACK, free |-> {}] ELSE b[t]] :
     b \in {x \in [Tracks -> UNION {TrackEntries(t) : t \in Tracks}] :
              \A t \in Tracks : x[t] \in TrackEntries(t)}}

WithTail(bam, tail) ==
  [t \in 0..ExtTrack |-> IF t = ExtTrack THEN tail ELSE bam[t]]

\* the image with the BAM sector replaced
WithBam(image, bam) == [image EXCEPT ![<<DIR_TRACK, 0>>] = BamBlock(bam)]

\* a 40-track image: file A runs from track DIR_TRACK - 1 over the track
\* beyond the BAM's range to track DIR_TRACK + 1, where it ends
ExtImage ==
  [ts \in ExtTS |->
     IF ts = <<DIR_TRACK, 0>>
     THEN BamBlock(WithTail(FormatBam({<<DIR_TRACK, 0>>,
                                       <<DIR_TRACK, FIRST_DIR_SECTOR>>,
                                       <<DIR_TRACK - 1, 0>>,
                                       <<DIR_TRACK - 1, 1>>,
                                       <<DIR_TRACK + 1, 0>>}),
                             [cnt |-> ChA, free |-> {}]))
     ELSE IF ts = <<DIR_TRACK, FIRST_DIR_SECTOR>>
     THEN DirBlock(0, LAST, [i \in 1..DirEntries |->
                               IF i = 1 THEN [FileA EXCEPT !.num_blocks = 3]
                               ELSE IF i = 2 THEN FileB ELSE ZeroEntry])
     ELSE IF ts = <<DIR_TRACK - 1, 0>>
     THEN DataBlock(ExtTrack, 0, [i \in 1..(BLOCK - 2) |-> 1])
     ELSE IF ts = <<ExtTrack, 0>>
     THEN DataBlock(DIR_TRACK + 1, 0, [i \in 1..(BLOCK - 2) |-> 1])
     ELSE IF ts \in {<<DIR_TRACK + 1, 0>>, <<DIR_TRACK - 1, 1>>} THEN OneByte
     ELSE DataBlock(0, 0, ZeroData)]

\* an interleave that wraps inside a track, as 10 does on 21 sectors
WrapInterleave == SecPerTrack - 1
AllocInterleaves == {DATA_INTERLEAVE, DIR_INTERLEAVE, WrapInterleave}

AllocNext(track, sector, interleave) ==
  /\ obs.op = ""
  /\ LET r == alloc_next_block(drive, track, sector, interleave) IN
       /\ drive' = r.d
       /\ obs' = [Note(obs, "alloc_next", interleave,
                         IF r.ok THEN "OK" ELSE "FAIL")
                    EXCEPT !.before = drive, !.ts = <<track, sector>>,
                           !.hit = <<r.track, r.sector>>]
  /\ UNCHANGED <<bus, trap, cpu>>

AllocBlock(track, sector) ==
  /\ obs.op = ""
  /\ LET r == alloc_block(drive, track, sector) IN
       /\ drive' = r.d
       /\ obs' = [Note(obs, "alloc", 0, r.r)
                    EXCEPT !.before = drive, !.ts = <<track, sector>>]
  /\ UNCHANGED <<bus, trap, cpu>>

FreeBlock(track, sector) ==
  /\ obs.op = ""
  /\ LET r == free_block(drive, track, sector) IN
       /\ drive' = r.d
       /\ obs' = [Note(obs, "free", 0, r.r)
                    EXCEPT !.before = drive, !.ts = <<track, sector>>]
  /\ UNCHANGED <<bus, trap, cpu>>

AllocInit ==
  /\ drive \in
       {d64_drive_mount_file(d64_drive_create(WithBam(StockImage, b)),
                             "rw", StockFile).d : b \in AllocBams}
       \cup {d64_drive_mount_file(
               d64_drive_create(WithBam(ExtImage, WithTail(b, tail))),
               "rw", ExtFile).d :
               b \in {x \in AllocBams :
                        \A t \in Tracks : x[t].cnt = Cardinality(x[t].free)},
               tail \in TailEntries}
  /\ bus = iec_init
  /\ obs = NoObs
  /\ trap = iec_trap_static
  /\ cpu = cpu_reset

\* the tracks and sectors the callers pass: a block of the image, the
\* sector before the first with a whole interleave to go (create_file), or
\* track 0 and sector 0 (an append to a file of one block)
AllocNextInputs ==
  {<<t, s, i>> \in (0..drive.num_tracks) \X ((0 - SecPerTrack)..(SecPerTrack - 1))
                   \X AllocInterleaves :
     \/ s >= 0 /\ s < num_sectors(t)
     \/ s = 0 - i /\ t = DIR_TRACK - 1
     \/ s = 0 /\ t = 0}
BamTracks == 0..(ExtTrack + 1)
BamSectors == (0 - 1)..SecPerTrack

AllocSpecNext ==
  \/ \E a \in AllocNextInputs : AllocNext(a[1], a[2], a[3])
  \/ \E track \in BamTracks, sector \in BamSectors : AllocBlock(track, sector)
  \/ \E track \in BamTracks, sector \in BamSectors : FreeBlock(track, sector)

AllocSpec == AllocInit /\ [][AllocSpecNext]_vars

(***************************************************************************)
(* free_block_chain on its own.  The links are bytes of the image, so the  *)
(* images of ChainInit lay a chain of up to ChainLen data blocks in any    *)
(* order over the disk, ending with a track 0 link or running back into    *)
(* its first block, on a 35-track and on a 40-track image, under a BAM     *)
(* that has the data blocks all allocated, all free, or every other one.   *)
(* One call is made from any data block; obs.before is the drive before    *)
(* the call, obs.ts the track and sector passed.                           *)
(***************************************************************************)
ChainLen == 3
SystemTS == {<<DIR_TRACK, 0>>, <<DIR_TRACK, FIRST_DIR_SECTOR>>}

\* the sequences of 1..ChainLen different blocks of a set
ChainsOver(blocks) ==
  {c \in UNION {[1..n -> blocks] : n \in 1..ChainLen} :
     \A i, j \in DOMAIN c : i # j => c[i] # c[j]}

\* the image whose block chain[i] links to chain[i+1], the last one to
\* track 0, or to the first one when the chain is closed
ChainImage(all, chain, closed) ==
  [ts \in all |->
     IF ts = <<DIR_TRACK, 0>> THEN BamBlock(ZeroBam)
     ELSE IF ts = <<DIR_TRACK, FIRST_DIR_SECTOR>> THEN DirBlock(0, LAST, ZeroDir)
     ELSE IF \E i \in DOMAIN chain : chain[i] = ts
     THEN LET i == CHOOSE i \in DOMAIN chain : chain[i] = ts IN
          IF i < Len(chain)
          THEN DataBlock(chain[i + 1][1], chain[i + 1][2], ZeroData)
          ELSE IF closed THEN DataBlock(chain[1][1], chain[1][2], ZeroData)
          ELSE OneByte
     ELSE OneByte]

ChainBams(all) ==
  {FormatBam(SystemTS \cup (all \ SystemTS)),
   FormatBam(SystemTS),
   FormatBam(SystemTS \cup {ts \in all : (ts[1] + ts[2]) % 2 = 0})}

FreeChain(track, sector) ==
  /\ obs.op = ""
  /\ LET r == free_block_chain(drive, track, sector) IN
       /\ drive' = r.d
       /\ obs' = [Note(obs, "free_chain", 0, IF r.ok THEN "OK" ELSE "FAIL")
                    EXCEPT !.before = drive, !.ts = <<track, sector>>]
  /\ UNCHANGED <<bus, trap, cpu>>

ChainInit ==
  /\ drive \in
       {d64_drive_mount_file(
          d64_drive_create(WithBam(ChainImage(AllTS, c, closed), b)),
          "rw", StockFile).d :
          c \in ChainsOver(AllTS \ SystemTS), closed \in BOOLEAN,
          b \in ChainBams(AllTS)}
       \cup
       {d64_drive_mount_file(
          d64_drive_create(WithBam(ChainImage(ExtTS, c, FALSE),
                                   WithTail(b, [cnt |-> ChA, free |-> {}]))),
          "rw", ExtFile).d :
          c \in {x \in ChainsOver(ExtTS \ SystemTS) :
                   \E i \in DOMAIN x : x[i][1] = ExtTrack},
          b \in ChainBams(AllTS)}
  /\ bus = iec_init
  /\ obs = NoObs
  /\ trap = iec_trap_static
  /\ cpu = cpu_reset

ChainNext ==
  \E ts \in DOMAIN drive.img \ SystemTS : FreeChain(ts[1], ts[2])

ChainSpec == ChainInit /\ [][ChainNext]_vars

(***************************************************************************)
(* ReadSpec, the read-back specification: as in DataSpec a file A is       *)
(* created on channel 1 of an empty disk, takes up to MaxData bytes (byte  *)
(* i is i modulo MaxByte + 1, so that neighbours differ) and is closed;    *)
(* once it is closed it is opened on channel 0 and read past its   *)
(* end, while opens of channel 2 set and clear the drive's error.          *)
(* obs.data is the sequence of bytes the drive accepted, obs.msg the       *)
(* sequence of <<status, byte, error>> of the reads since channel 0 was    *)
(* opened: what the read returned and the drive's error before it.         *)
(***************************************************************************)
\* the file was created and its channel is closed again
Finished == obs.wopens = 1 /\ ~Writer(drive, 1)

OpenRead ==
  /\ ~Halted(drive) /\ obs.attached
  /\ Finished
  /\ drive' = d64_drive_open([drive EXCEPT !.led = "ON"], 0, <<ChA>>)
  /\ obs' = [Note(obs, "io", 0, 0)
               EXCEPT !.msg = IF drive.ch[0].mode = "FREE" THEN <<>> ELSE @]
  /\ UNCHANGED <<bus, trap, cpu>>

\* a second reader of the file: the open clears the drive's error when
\* channel 2 is free and sets NO CHANNEL when it is not
OpenOther ==
  /\ Finished
  /\ Open(2, <<ChA>>)

Fetch ==
  /\ ~Halted(drive) /\ obs.attached
  /\ Finished /\ drive.ch[0].mode = "FILE"
  /\ Len(obs.msg) < MaxData + 2
  /\ LET r == d64_drive_read(drive, 0) IN
       /\ drive' = r.d
       /\ obs' = [Note(obs, "read", 0, r.st)
                    EXCEPT !.msg = Append(@, <<r.st, r.byte,
                                               drive.current_error>>)]
  /\ UNCHANGED <<bus, trap, cpu>>

ReadInit ==
  /\ drive = d64_drive_create(BlankImage)
  /\ bus = iec_init
  /\ obs = NoObs
  /\ trap = iec_trap_static
  /\ cpu = cpu_reset

\* the one mount, and the close of the second reader
Insert == ~obs.attached /\ Mount("rw")
CloseOther == drive.ch[2].mode # "FREE" /\ Close(2)

ReadNext ==
  \/ Insert
  \/ Create
  \/ \E byte \in {Len(obs.data) % (MaxByte + 1)} : Put(byte, FALSE)
  \/ Finish
  \/ OpenRead
  \/ OpenOther
  \/ Fetch
  \/ Release
  \/ CloseOther

ReadSpec == ReadInit /\ [][ReadNext]_vars

(***************************************************************************)
(* FrameSpec, the framing specification: the bus calls in any order on a   *)
(* mounted drive.  obs.frame is the history of the bus as the caller saw   *)
(* it: listener says that a LISTEN 8 was answered with OK and no UNLISTEN  *)
(* was sent since, lsec that since that LISTEN a secondary address with    *)
(* the code OPEN or DATA was sent; talker and tsec say the same of TALK 8, *)
(* UNTALK and a secondary address of any code.  obs.st is the status of    *)
(* the last call, obs.off the byte iec_in gave, obs.hit whether the call   *)
(* changed the drive or the bus.                                           *)
(***************************************************************************)
FrameAtnBytes ==
  {ATN_LISTEN + 8, ATN_LISTEN + 9, ATN_UNLISTEN + 15, ATN_TALK + 8,
   ATN_TALK + 9, ATN_UNTALK + 15}
FrameSecBytes == {CMD_OPEN + 2, CMD_CLOSE + 2, CMD_DATA + 2}

FrameAtn(byte) ==
  /\ ~Halted(drive)
  /\ LET f == obs.frame
         Done(r) ==
           /\ bus' = r.bus
           /\ drive' = r.d
           /\ obs' =
                [Note(obs, "atn", byte, r.st) EXCEPT !.frame =
                   IF byte = ATN_LISTEN + 8 /\ r.st = ST_OK
                   THEN [f EXCEPT !.listener = TRUE, !.lsec = FALSE]
                   ELSE IF Code(byte) = ATN_UNLISTEN
                   THEN [f EXCEPT !.listener = FALSE, !.lsec = FALSE]
                   ELSE IF byte = ATN_TALK + 8 /\ r.st = ST_OK
                   THEN [f EXCEPT !.talker = TRUE, !.tsec = FALSE]
                   ELSE IF Code(byte) = ATN_UNTALK
                   THEN [f EXCEPT !.talker = FALSE, !.tsec = FALSE]
                   ELSE f]
     IN Done(iec_out_atn(bus, drive, byte))
  /\ UNCHANGED <<trap, cpu>>

FrameSec(byte) ==
  /\ ~Halted(drive)
  /\ LET f == obs.frame
         Done(r) ==
           /\ bus' = r.bus
           /\ drive' = r.d
           /\ obs' =
                [Note(obs, "sec", byte, r.st) EXCEPT !.frame =
                   [f EXCEPT
                      !.lsec = @ \/ (f.listener
                                     /\ Code(byte) \in {CMD_OPEN, CMD_DATA}),
                      !.tsec = @ \/ f.talker]]
     IN Done(iec_out_sec(bus, drive, byte))
  /\ UNCHANGED <<trap, cpu>>

FrameOut(byte, eoi) ==
  /\ ~Halted(drive)
  /\ bus.name_len < MaxName
  /\ LET Done(r) ==
           /\ obs.opens + r.opens <= MaxOpens
           /\ bus' = r.bus
           /\ drive' = r.d
           /\ obs' = [Note([obs EXCEPT !.opens = @ + r.opens], "out", byte, r.st)
                        EXCEPT !.hit = (r.d # drive \/ r.bus # bus)]
     IN Done(iec_out(bus, drive, byte, eoi))
  /\ UNCHANGED <<trap, cpu>>

FrameIn ==
  /\ ~Halted(drive)
  /\ LET Done(r) ==
           /\ bus' = r.bus
           /\ drive' = r.d
           /\ obs' = [Note(obs, "in", 0, r.st)
                        EXCEPT !.off = r.byte,
                               !.hit = (r.d # drive \/ r.bus # bus)]
     IN Done(iec_in(bus, drive))
  /\ UNCHANGED <<trap, cpu>>

FrameInit ==
  /\ drive = d64_drive_create(StockImage)
  /\ bus = iec_init
  /\ obs = NoObs
  /\ trap = iec_trap_static
  /\ cpu = cpu_reset

FrameNext ==
  \/ Insert
  \/ \E byte \in FrameAtnBytes : FrameAtn(byte)
  \/ \E byte \in FrameSecBytes : FrameSec(byte)
  \/ \E eoi \in BOOLEAN : FrameOut(ChA, eoi)
  \/ FrameIn

FrameSpec == FrameInit /\ [][FrameNext]_vars

(***************************************************************************)
(* UserSpec, the user-command specification: commands that start with U    *)
(* reach d64_execute_cmd as the name of an OPEN of channel 15 and as bytes  *)
(* written to channel 15, the last with EOI, while a direct-access channel  *)
(* is open.  A command of up to MaxUser bytes is written.  obs.before is    *)
(* the drive before the call, obs.cmd the bytes of the command, obs.how     *)
(* the way it came, obs.off the byte that lies at index 1 of the buffer     *)
(* handed to d64_execute_cmd: the second byte of the command, or for a      *)
(* command of one byte the zero behind a name and whatever an earlier       *)
(* command left in cmd_buf.                                                 *)
(***************************************************************************)
MaxUser == 2
Ch9 == Ch0 + 9
UserSeconds == {ChI, ChJ, Ch0, Ch9, ChA}
UserCommands == {<<ChU>>} \cup {<<ChU, b>> : b \in UserSeconds}

UserOpen(name) ==
  /\ ~Halted(drive) /\ obs.attached
  /\ drive' = d64_drive_open([drive EXCEPT !.led = "ON"], 15, name)
  /\ obs' = [Note(obs, "command", NameByte(name, 0), 0)
               EXCEPT !.cmd = name, !.before = drive, !.how = "open",
                      !.off = NameByte(name, 1)]
  /\ UNCHANGED <<bus, trap, cpu>>

UserWrite(byte, eoi) ==
  /\ ~Halted(drive) /\ obs.attached
  /\ drive.cmd_len < MaxUser
  /\ drive' = d64_drive_write(drive, 15, byte, eoi).d
  /\ obs' = [Note(obs, IF eoi THEN "command" ELSE "io",
                  PutCmd(drive.cmd_buf, drive.cmd_len, byte)[1], 0)
               EXCEPT !.cmd = SubSeq(PutCmd(drive.cmd_buf, drive.cmd_len, byte),
                                     1, drive.cmd_len + 1),
                      !.before = drive, !.how = "write",
                      !.off = CmdByte(PutCmd(drive.cmd_buf, drive.cmd_len,
                                             byte), 1)]
  /\ UNCHANGED <<bus, trap, cpu>>

UserInit ==
  /\ drive = d64_drive_create(StockImage)
  /\ bus = iec_init
  /\ obs = NoObs
  /\ trap = iec_trap_static
  /\ cpu = cpu_reset

UserNext ==
  \/ Insert
  \/ drive.ch[2].mode = "FREE" /\ Open(2, <<ChHash>>)
  \/ \E name \in UserCommands : UserOpen(name)
  \/ \E byte \in {ChU} \cup UserSeconds, eoi \in BOOLEAN : UserWrite(byte, eoi)

UserSpec == UserInit /\ [][UserNext]_vars

(***************************************************************************)
(* PendSpec, the pending-command specification: the host sends MaxFrames   *)
(* commands to channel 15, each in a frame of its own: LISTEN 8, a         *)
(* secondary address (DATA 15, or OPEN 15 for a command sent as a name),   *)
(* the bytes of the command, UNLISTEN.  A command is any number of bytes A *)
(* without EOI, up to one more than the drive takes, and may end with the  *)
(* byte I with EOI, which makes it complete; a complete command may be     *)
(* just "I".  obs.txn is the host's place in the frame, obs.sent the       *)
(* number of frames begun, obs.data the bytes sent in the frame, obs.eoi   *)
(* whether the last had EOI, obs.st its status, obs.cmd the bytes          *)
(* d64_execute_cmd was called with, obs.off the drive's cmd_len before.    *)
(***************************************************************************)
MaxFrames == 2

PendListen ==
  /\ ~Halted(drive) /\ obs.attached
  /\ obs.txn = "idle" /\ obs.sent < MaxFrames
  /\ LET Sent(r) ==
           /\ bus' = r.bus
           /\ drive' = r.d
           /\ obs' = [Note(obs, "atn", ATN_LISTEN + 8, r.st)
                        EXCEPT !.txn = "listen", !.sent = @ + 1,
                               !.data = <<>>, !.eoi = FALSE]
     IN Sent(iec_out_atn(bus, drive, ATN_LISTEN + 8))
  /\ UNCHANGED <<trap, cpu>>

PendSec(byte) ==
  /\ ~Halted(drive)
  /\ obs.txn = "listen"
  /\ LET Sent(r) ==
           /\ bus' = r.bus
           /\ drive' = r.d
           /\ obs' = [Note(obs, "sec", byte, r.st)
                        EXCEPT !.txn = IF byte = CMD_OPEN + 15 THEN "name"
                                       ELSE "data"]
     IN Sent(iec_out_sec(bus, drive, byte))
  /\ UNCHANGED <<trap, cpu>>

PendOut(eoi) ==
  /\ ~Halted(drive)
  /\ \/ obs.txn = "data" /\ Len(obs.data) <= CMD_MAX + 1
     \/ obs.txn = "name" /\ eoi
  /\ LET Sent(byte, r) ==
           /\ bus' = r.bus
           /\ drive' = r.d
           /\ obs' = [Note(obs, "out", byte, r.st)
                        EXCEPT !.txn = IF eoi THEN "done" ELSE @,
                               !.data = Append(@, byte),
                               !.eoi = eoi,
                               !.off = drive.cmd_len,
                               !.how = obs.txn,
                               !.cmd = IF obs.txn = "name" THEN <<byte>>
                                       ELSE IF eoi /\ r.st = ST_OK
                                       THEN SubSeq(PutCmd(drive.cmd_buf,
                                                          drive.cmd_len, byte),
                                                   1, drive.cmd_len + 1)
                                       ELSE <<>>]
         Chosen(byte) == Sent(byte, iec_out(bus, drive, byte, eoi))
     IN Chosen(IF eoi THEN ChI ELSE ChA)
  /\ UNCHANGED <<trap, cpu>>

PendUnlisten ==
  /\ ~Halted(drive)
  /\ obs.txn \in {"data", "done"}
  /\ LET Sent(r) ==
           /\ bus' = r.bus
           /\ drive' = r.d
           /\ obs' = [Note(obs, "atn", ATN_UNLISTEN + 15, r.st)
                        EXCEPT !.txn = "idle"]
     IN Sent(iec_out_atn(bus, drive, ATN_UNLISTEN + 15))
  /\ UNCHANGED <<trap, cpu>>

PendInit ==
  /\ drive = d64_drive_create(StockImage)
  /\ bus = iec_init
  /\ obs = NoObs
  /\ trap = iec_trap_static
  /\ cpu = cpu_reset

PendNext ==
  \/ Insert
  \/ PendListen
  \/ \E byte \in {CMD_DATA + 15, CMD_OPEN + 15} : PendSec(byte)
  \/ \E eoi \in BOOLEAN : PendOut(eoi)
  \/ PendUnlisten

PendSpec == PendInit /\ [][PendNext]_vars

(***************************************************************************)
(* NameSpec, the file-name specification: in a frame LISTEN 8, OPEN 2 the  *)
(* host sends a name, $ followed by bytes A, of any length up to one more  *)
(* than name_buf has room for, the last with EOI or none with EOI, and ends *)
(* frame with UNLISTEN.  obs.off is the number of bytes sent in the frame. *)
(* A store behind name_buf ends the run: what follows it is not defined.   *)
(***************************************************************************)
NameSec ==
  /\ ~Halted(drive) /\ ~bus.stray
  /\ obs.txn = "listen"
  /\ LET Sent(r) ==
           /\ bus' = r.bus
           /\ drive' = r.d
           /\ obs' = [Note(obs, "sec", CMD_OPEN + 2, r.st)
                        EXCEPT !.txn = "data", !.off = 0]
     IN Sent(iec_out_sec(bus, drive, CMD_OPEN + 2))
  /\ UNCHANGED <<trap, cpu>>

NameOut(eoi) ==
  /\ ~Halted(drive) /\ ~bus.stray
  /\ obs.txn = "data" /\ obs.off <= IEC_NAMEBUF_LENGTH
  /\ LET Sent(byte, r) ==
           /\ bus' = r.bus
           /\ drive' = r.d
           /\ obs' = [Note(obs, "out", byte, r.st)
                        EXCEPT !.txn = IF eoi THEN "done" ELSE @,
                               !.off = @ + 1, !.eoi = eoi]
         Chosen(byte) == Sent(byte, iec_out(bus, drive, byte, eoi))
     IN Chosen(IF obs.off = 0 THEN ChDollar ELSE ChA)
  /\ UNCHANGED <<trap, cpu>>

NameInit ==
  /\ drive = d64_drive_create(StockImage)
  /\ bus = iec_init
  /\ obs = NoObs
  /\ trap = iec_trap_static
  /\ cpu = cpu_reset

NameNext ==
  \/ Insert
  \/ ~bus.stray /\ PendListen
  \/ NameSec
  \/ \E eoi \in BOOLEAN : NameOut(eoi)
  \/ ~bus.stray /\ PendUnlisten

NameSpec == NameInit /\ [][NameNext]_vars

(***************************************************************************)
(* PoolSpec, the buffer pool specification: more channels are opened than  *)
(* the drive has work buffers, for reading, for writing a new file, for    *)
(* writing an existing one, for appending, as direct-access channels with  *)
(* any and with a named buffer, and are closed again, on a disk with room  *)
(* and on a crowded one: a disk whose directory block is full and whose    *)
(* only free block is on the directory track.  The disk is mounted         *)
(* writable or write-protected.  An open notes "open" and its channel;     *)
(* MaxPoolOpens opens are made.                                            *)
(***************************************************************************)
CrowdedImage ==
  WithBam(StockImage, FormatBam(AllTS \ {<<DIR_TRACK, SecPerTrack - 1>>}))

PoolOpens ==
  {<<0, <<ChA>>>>, <<1, <<ChC>>>>, <<1, <<ChA>>>>, <<2, <<ChA, ChComma, ChA>>>>,
   <<3, <<ChHash>>>>, <<5, <<ChHash, Ch0 + 1>>>>}
PoolChannels == {0, 1, 2, 3, 5}

MaxPoolOpens == 6

TryOpen(c, name) ==
  /\ ~Halted(drive) /\ obs.attached
  /\ obs.opens < MaxPoolOpens
  /\ drive' = d64_drive_open([drive EXCEPT !.led = "ON"], c, name)
  /\ obs' = [Note(obs, "open", c, 0) EXCEPT !.cmd = name, !.opens = @ + 1]
  /\ UNCHANGED <<bus, trap, cpu>>

PoolClose(c) == drive.ch[c].mode # "FREE" /\ Close(c)

PoolInit ==
  /\ drive \in {d64_drive_create(StockImage), d64_drive_create(CrowdedImage)}
  /\ bus = iec_init
  /\ obs = NoObs
  /\ trap = iec_trap_static
  /\ cpu = cpu_reset

PoolNext ==
  \/ \E how \in {"rw", "ro"} : ~obs.attached /\ Mount(how)
  \/ \E o \in PoolOpens : TryOpen(o[1], o[2])
  \/ \E c \in PoolChannels : PoolClose(c)

PoolSpec == PoolInit /\ [][PoolNext]_vars

(***************************************************************************)
(* ProtSpec, the write-protection specification: the image is mounted      *)
(* writable or write-protected, and files are created, replaced, appended  *)
(* to, written and closed, the directory is opened as a file on a channel  *)
(* other than 0, files are scratched, the drive is initialised and reset,  *)
(* and the image is unmounted.                                             *)
(***************************************************************************)
ProtOpens ==
  {<<1, <<ChC>>>>, <<1, <<ChAt, ChColon, ChA>>>>, <<2, <<ChA, ChComma, ChA>>>>,
   <<1, <<ChDollar>>>>}
ProtCommands == {<<ChS, ChColon, ChStar>>, <<ChI>>, <<ChU, ChJ>>}
MaxProtOpens == 3

ProtOpen(c, name) ==
  /\ obs.opens < MaxProtOpens
  /\ ~Halted(drive) /\ obs.attached
  /\ drive' = d64_drive_open([drive EXCEPT !.led = "ON"], c, name)
  /\ obs' = [Note([obs EXCEPT !.opens = @ + 1],
                  IF c = 15 THEN "command" ELSE "open",
                  IF c = 15 THEN NameByte(name, 0) ELSE c, 0)
               EXCEPT !.cmd = name]
  /\ UNCHANGED bus
  /\ UNCHANGED <<trap, cpu>>

ProtInit ==
  /\ drive = d64_drive_create(StockImage)
  /\ bus = iec_init
  /\ obs = NoObs
  /\ trap = iec_trap_static
  /\ cpu = cpu_reset

ProtNext ==
  \/ Insert
  \/ ~(drive.ready /\ drive.write_protected) /\ Mount("ro")
  \/ \E o \in ProtOpens \cup {<<15, name>> : name \in ProtCommands} :
        ProtOpen(o[1], o[2])
  \/ \E c \in FileChannels : Close(c)
  \/ \E c \in FileChannels : Write(c, FillByte, FALSE)
  \/ drive.ready /\ Unmount

ProtSpec == ProtInit /\ [][ProtNext]_vars

(***************************************************************************)
(* ScratchSpec, the scratch specification: files are scratched with S:*    *)
(* while a file is created, written and closed, on the 35-track disk with  *)
(* the files A and B and on the 40-track disk whose file A has a block on  *)
(* a track past the 35th.  obs.file is the host file of the image.         *)
(***************************************************************************)
ScratchOpens == {<<1, <<ChC>>>>, <<15, <<ChS, ChColon, ChStar>>>>}

ScratchInit ==
  /\ \E ext \in BOOLEAN :
       /\ drive = d64_drive_create(IF ext THEN ExtImage ELSE StockImage)
       /\ obs = [NoObs EXCEPT !.file = IF ext THEN ExtFile ELSE StockFile]
  /\ bus = iec_init
  /\ trap = iec_trap_static
  /\ cpu = cpu_reset

ScratchNext ==
  \/ ~obs.attached /\ MountFile("rw", obs.file)
  \/ \E o \in ScratchOpens : Open(o[1], o[2])
  \/ Close(1)
  \/ Write(1, FillByte, FALSE)

ScratchSpec == ScratchInit /\ [][ScratchNext]_vars

(***************************************************************************)
(* Properties.                                                             *)
(***************************************************************************)
\* C1: BAM consistency.  Once a consistent image is mounted, whatever files
\* are created, written, closed, replaced, appended to and scratched, for
\* every track the free-block counter byte equals the number of sectors
\* whose bit is set in that track's bitmap.
C1_BamConsistent ==
  \A t \in Tracks : drive.bam[t].cnt = Cardinality(drive.bam[t].free)

\* blocks have been allocated for a file and a scratch has freed a chain
C1_Witness ==
  /\ obs.wopens >= 1
  /\ drive.current_error = "SCRATCHED" /\ drive.error_track >= 1
  /\ drive.bam_dirty

\* C11: device presence.  After a LISTEN or TALK the status is OK and the
\* listener (talker) is armed exactly when the device addressed is 8 and the
\* drive is ready; otherwise the status is NOTPRESENT and the listener
\* (talker) is disarmed.
C11_Present == obs.call % 16 = 8 /\ drive.ready
C11_ListenTalk ==
  obs.op = "atn" /\ Code(obs.call) \in {ATN_LISTEN, ATN_TALK} =>
    /\ obs.st = IF C11_Present THEN ST_OK ELSE ST_NOTPRESENT
    /\ Code(obs.call) = ATN_LISTEN => bus.listener_active = C11_Present
    /\ Code(obs.call) = ATN_TALK => bus.talker_active = C11_Present
C11_Witness ==
  /\ obs.op = "atn" /\ obs.call = ATN_TALK + 8
  /\ obs.st = ST_OK /\ bus.talker_active /\ drive.ready

\* every channel other than the command channel is FREE, every buffer free
ChannelsCleared(d) ==
  /\ \A c \in DOMAIN d.ch : c # 15 => d.ch[c].mode = "FREE"
  /\ \A b \in Buffers : d.buf_free[b]

\* C12: after an unmount and after a mount attempt every channel other than
\* 15 is FREE and all work buffers are free, whatever bus calls came before.
C12_ClearedByMount ==
  obs.op \in {"mount", "unmount"} => ChannelsCleared(drive)

\* the BAM sector of the image holds what the mirror holds
BamOnDisk(d) ==
  d.img[<<DIR_TRACK, 0>>].k = "bam" /\ d.img[<<DIR_TRACK, 0>>].v = d.bam

\* C13: reset.  After a reset of a mounted drive, by iec_reset or by a U
\* command that resets, every channel other than 15 is FREE, all buffers
\* are free, no command is pending, the BAM mirror equals the BAM sector of
\* the image and the error is 73 STARTUP.
C13_AfterReset ==
  \/ obs.op = "reset"
  \/ obs.op = "command" /\ obs.call = ChU /\ drive.current_error = "STARTUP"
C13_Reset ==
  C13_AfterReset /\ drive.ready =>
    /\ ChannelsCleared(drive)
    /\ drive.cmd_len = 0
    /\ BamOnDisk(drive)
    /\ drive.current_error = "STARTUP"
C13_Witness ==
  /\ obs.op = "reset" /\ drive.ready /\ obs.wopens >= 1
  /\ drive.bam # StockImage[<<DIR_TRACK, 0>>].v
  /\ BamOnDisk(drive) /\ drive.current_error = "STARTUP"

\* C14: lazy write-back of the BAM.  On a writable mounted image the dirty
\* flag is set whenever the mirror differs from the BAM sector of the image,
\* and a step that unmounts, resets or initializes (I command) such a drive
\* ends with the BAM sector holding the mirror and the dirty flag false.
C14_Writable == drive.ready /\ ~drive.write_protected
C14_Flushes ==
  \/ obs'.op \in {"unmount", "reset"}
  \/ obs'.op = "command" /\ obs'.call = ChI
  \/ obs'.op = "command" /\ obs'.call = ChU /\ drive'.current_error = "STARTUP"
C15_LedOffWhenOk ==
  /\ drive.current_error \in {"OK", "STARTUP"} => drive.led = "OFF"
  /\ drive.current_error \notin {"OK", "SCRATCHED", "STARTUP"} =>
       drive.led = "ERROR_FLASH"

\* C15 amended: the LED is off when the error is STARTUP, flashing when it
\* is anything other than OK, SCRATCHED or STARTUP, and not flashing when it
\* is OK or SCRATCHED (it may be on: an open turns it on and error OK keeps
\* it so until the channel is closed).
C15_LedDerived ==
  /\ drive.current_error = "STARTUP" => drive.led = "OFF"
  /\ drive.current_error \notin {"OK", "SCRATCHED", "STARTUP"} =>
       drive.led = "ERROR_FLASH"
  /\ drive.current_error \in {"OK", "SCRATCHED"} => drive.led # "ERROR_FLASH"
C15_Witness ==
  /\ drive.current_error = "OK" /\ drive.led = "ON" /\ Writer(drive, 1)
  /\ obs.scratches >= 1

\* a step that is a command which leaves channels, buffers, the BAM and the
\* image as they were and the command channel ready for the next command
C16_Harmless ==
  /\ drive'.ch = drive.ch /\ drive'.buf_free = drive.buf_free
  /\ drive'.ram = drive.ram /\ drive'.bam = drive.bam
  /\ drive'.bam_dirty = drive.bam_dirty /\ drive'.img = drive.img
  /\ drive'.ch[15].mode = "COMMAND" /\ drive'.cmd_len = 0
  /\ ~Halted(drive')
C16_Other == obs'.op = "command" /\ obs'.call \notin {ChI, ChU, ChS}
C16_Minus == IndexOf(obs'.cmd, ChMinus, Len(obs'.cmd)) # 0

\* C16 as stated: a command that begins with B, M, V, N, R or C sets 03
\* UNIMPLEMENTED, one that begins with none of I, U, S, B, M, V, N, R, C
\* sets a SYNTAX error, and both leave channels, buffers, BAM and image
\* unchanged and the command channel open.
C16_DispatchAsStated ==
  [][C16_Other =>
       /\ drive'.current_error =
            IF obs'.call \in {ChB, ChM, ChV, ChN, ChR, ChC}
            THEN "UNIMPLEMENTED" ELSE "SYNTAX31"
       /\ C16_Harmless]_vars

\* C16 amended: a command that begins with M, V, N, R or C, or with B and
\* holds a '-', sets 03 UNIMPLEMENTED; a B command without '-' and a
\* command that begins with none of I, U, S, B, M, V, N, R, C set 31 SYNTAX
\* ERROR; all of them leave channels, buffers, BAM and image unchanged and
\* the command channel open.
C16_Dispatch ==
  [][C16_Other =>
       /\ drive'.current_error =
            IF \/ obs'.call \in {ChM, ChV, ChN, ChR, ChC}
               \/ obs'.call = ChB /\ C16_Minus
            THEN "UNIMPLEMENTED" ELSE "SYNTAX31"
       /\ C16_Harmless]_vars
C16_Witness ==
  /\ obs.op = "command" /\ obs.cmd = <<ChB>>
  /\ drive.current_error = "SYNTAX31"
  /\ Writer(drive, 1) /\ drive.ch[2].mode = "DIRECT" /\ drive.bam_dirty

\* "NN,MESSAGE,TT,SS<CR>": two digits, a comma, a text, and at the end a
\* comma, two digits, a comma, two digits and a carriage return
IsDigit(b) == b >= Ch0 /\ b <= Ch0 + 9
C17_Formatted(m) ==
  /\ Len(m) >= 11
  /\ IsDigit(m[1]) /\ IsDigit(m[2]) /\ m[3] = ChComma
  /\ m[Len(m) - 6] = ChComma /\ IsDigit(m[Len(m) - 5]) /\ IsDigit(m[Len(m) - 4])
  /\ m[Len(m) - 3] = ChComma /\ IsDigit(m[Len(m) - 2]) /\ IsDigit(m[Len(m) - 1])
  /\ m[Len(m)] = CR
C17_OkMessage == <<48, 48, 44, 79, 75, 44, 48, 48, 44, 48, 48, 13>>

\* C17: reading the error channel gives the bytes of the formatted message
\* "NN,MESSAGE,TT,SS<CR>" in order, with status OK on every byte but the
\* last and EOF with the final CR; after that the error is OK and the next
\* read starts the message "00,OK,00,00<CR>".
C17_ErrorChannel ==
  obs.op = "status" =>
    /\ C17_Formatted(obs.msg)
    /\ obs.st \in {ST_OK, ST_EOF}
    /\ obs.st = ST_OK =>
         /\ Len(obs.data) < Len(obs.msg)
         /\ obs.data = SubSeq(obs.msg, 1, Len(obs.data))
    /\ obs.st = ST_EOF =>
         /\ obs.data = obs.msg
         /\ drive.current_error = "OK"
         /\ drive.error_read = 0
         /\ error_buf(drive) = C17_OkMessage
C17_Witness ==
  /\ obs.op = "status" /\ obs.st = ST_EOF
  /\ obs.data = <<54, 50, 44, 70, 73, 76, 69, 32, 78, 79, 84, 32, 70, 79, 85,
                   78, 68, 44, 48, 48, 44, 48, 48, 13>>
  /\ drive.current_error = "OK"

\* C20: iec_trap_check(pc) is true exactly when traps are enabled and
\* initialized and pc is one of $ED09, $ED0C, $EDB9, $EDC7, $EDDD, $EDEF,
\* $EDFE, $EE13.
C20_TrapCheck ==
  obs.op = "trap_check" =>
    (obs.hit <=>
       /\ trap.traps_enabled /\ trap.trap_initialized
       /\ obs.call \in {60681, 60684, 60857, 60871, 60893, 60911, 60926,
                         60947})
C20_Witness ==
  /\ obs.op = "trap_check" /\ obs.call = 60947 /\ obs.hit
  /\ trap.traps_enabled /\ trap.trap_initialized

\* The format a file is recognized as: by the signature, given a header of
\* 64 bytes and a track count byte in 35..40, and by the size where the
\* signature is absent.
Recognized(f) ==
  IF f.size < 64 THEN "none"
  ELSE IF f.sig THEN (IF f.nt \in 35..40 THEN "X64" ELSE "none")
  ELSE IF f.size \in {819200, 822400} THEN "D81"
  ELSE IF f.size \in {174848, 175531, 196608, 197376} THEN "D64"
  ELSE "none"
\* The reading in which a file that fails as X64 is still told by its size.
RecognizedBySizeToo(f) ==
  IF f.size < 64 THEN "none"
  ELSE IF f.sig /\ f.nt \in 35..40 THEN "X64"
  ELSE IF f.size \in {819200, 822400} THEN "D81"
  ELSE IF f.size \in {174848, 175531, 196608, 197376} THEN "D64"
  ELSE "none"
DescOf(f, type) ==
  [type |-> type,
   header_size |-> IF type = "X64" THEN 64 ELSE 0,
   num_tracks |-> IF type = "X64" THEN f.nt
                  ELSE IF type = "D81" THEN 80
                  ELSE IF f.size \in {174848, 175531} THEN 35 ELSE 40,
   has_error_info |-> type # "X64" /\ f.size \in {822400, 175531, 197376}]
\* the BAM sectors of the format lie inside the file and are not marked bad
BamReadable(f, type) ==
  /\ ~(DescOf(f, type).has_error_info /\ f.ei_bad)
  /\ IF type = "D81" THEN f.size >= (39 * 40 + 3) * 256
     ELSE f.size >= DescOf(f, type).header_size + 358 * 256
Detection(kind) ==
  (obs.op = "mount_file" /\ obs.how # "none") =>
    /\ kind = "none" => ~obs.hit /\ ~drive.ready /\ ~drive.file_open
    /\ kind # "none" => drive.desc = DescOf(obs.file, kind)
    /\ (kind # "none" /\ BamReadable(obs.file, kind)) <=> obs.hit
    /\ obs.hit <=> drive.ready

\* C18 as stated: X64 iff signature and track count byte in 35..40,
\* otherwise D81 or D64 by the size; every other file fails to mount and
\* leaves the drive not ready.
C18_DetectionAsStated == Detection(RecognizedBySizeToo(obs.file))
\* C18: a file with the X64 signature is recognized as X64 iff its track
\* count byte is in 35..40 and fails to mount otherwise, whatever its size;
\* a file without the signature is recognized as D81 iff its size is 819200
\* or 822400, else as D64 iff its size is 174848 or 175531 (35 tracks) or
\* 196608 or 197376 (40 tracks), the larger of each pair carrying error
\* info; every other file fails to mount and leaves the drive not ready.
C18_Detection == Detection(Recognized(obs.file))
C18_Witness ==
  /\ obs.op = "mount_file" /\ obs.how = "rw" /\ obs.hit /\ drive.ready
  /\ obs.file.sig /\ obs.file.nt = 40 /\ drive.desc.type = "X64"

\* The geometry of the formats, told without the tables: the sectors of a
\* track, the sectors before a track, and the sectors of the image.
SectorsOnTrack(desc, t) ==
  IF desc.type = "D81" THEN 40
  ELSE IF t <= 17 THEN 21 ELSE IF t <= 24 THEN 19 ELSE IF t <= 30 THEN 18
  ELSE 17
RECURSIVE SectorsBefore(_, _)
SectorsBefore(desc, t) ==
  IF t <= 1 THEN 0
  ELSE SectorsBefore(desc, t - 1) + SectorsOnTrack(desc, t - 1)
ValidPair(desc, t, s) ==
  /\ t >= 1 /\ t <= desc.num_tracks
  /\ s >= 0 /\ s <= SectorsOnTrack(desc, t) - 1
\* C19: offset(track, sector) is INVALID for every track outside
\* 1..num_tracks and every sector outside 0..sectors_on_track-1; for a valid
\* pair it is header_size + 256 * (linear sector index), its 256 bytes lie
\* inside the sector data area of the image, and they are disjoint from the
\* 256 bytes of every other valid pair.
C19_Offset ==
  obs.op = "offset" =>
    LET desc == drive.desc
        t == obs.ts[1]
        s == obs.ts[2]
    IN IF ~ValidPair(desc, t, s) THEN obs.off = INVALID
       ELSE /\ obs.off = desc.header_size + 256 * (SectorsBefore(desc, t) + s)
            /\ obs.off >= desc.header_size
            /\ obs.off + 256 <=
                 desc.header_size
                   + 256 * SectorsBefore(desc, desc.num_tracks + 1)
            /\ \A t2 \in 1..desc.num_tracks :
                 \A s2 \in 0..(SectorsOnTrack(desc, t2) - 1) :
                   <<t2, s2>> # <<t, s>> =>
                     \/ d64_offset_from_ts(desc, t2, s2) + 256 <= obs.off
                     \/ obs.off + 256 <= d64_offset_from_ts(desc, t2, s2)
C19_Witness ==
  /\ obs.op = "offset" /\ drive.desc.type = "X64" /\ obs.ts = <<37, 16>>
  /\ obs.off = 64 + 256 * 716

\* C21: trap_process simulates an RTS for each trapped address: it reads
\* the low byte at $0100 + ((SP+1) mod 256) and the high byte at
\* $0100 + ((SP+2) mod 256), both in page 1, leaves SP at (SP+2) mod 256 and
\* the stack as it was, and returns the popped address + 1 modulo 65536.
C21_Rts ==
  obs.op = "trap" =>
    LET b == obs.before
        lo == 256 + ((b.sp + 1) % 256)
        hi == 256 + ((b.sp + 2) % 256)
    IN /\ obs.rts.lo_at = lo /\ obs.rts.hi_at = hi
       /\ {obs.rts.lo_at, obs.rts.hi_at} \subseteq 256..511
       /\ cpu.sp = (b.sp + 2) % 256
       /\ obs.rts.pc = (b.ram[hi] * 256 + b.ram[lo] + 1) % 65536
       /\ \A k \in StackCells : cpu.ram[256 + k] = b.ram[256 + k]
C21_Witness ==
  /\ obs.op = "trap" /\ obs.call = 60947 /\ obs.before.sp = 254
  /\ obs.rts.lo_at = 511 /\ obs.rts.hi_at = 256 /\ cpu.sp = 0
  /\ obs.before.ram[511] = 255 /\ obs.before.ram[256] = 255 /\ obs.rts.pc = 0

\* the bitwise or of two bytes, bit by bit
OrOf(x, y) ==
  LET B(k) == IF ((x \div (2 ^ k)) % 2 = 1) \/ ((y \div (2 ^ k)) % 2 = 1)
              THEN 2 ^ k ELSE 0
  IN B(0) + B(1) + B(2) + B(3) + B(4) + B(5) + B(6) + B(7)
\* C22 as stated: after trap_process handled a trapped routine, $90 holds
\* the status byte the bus call returned, whatever it held before.
C22_StatusStored == obs.op = "trap" => cpu.ram[144] = obs.st
\* C22: after trap_process handled TALK, LISTEN, SECOND, TKSA, CIOUT or
\* ACPTR, $90 holds the bitwise or of the value it held before the trap and
\* the status byte the bus call returned (OK, READ_TIMEOUT, TIMEOUT, EOF or
\* NOTPRESENT); UNTLK and UNLSN leave $90 as it was.
C22_StatusOred ==
  obs.op = "trap" =>
    /\ obs.st \in {0, 2, 3, 64, 128}
    /\ cpu.ram[144] = IF obs.call \in {60911, 60926} THEN obs.before.ram[144]
                      ELSE OrOf(obs.before.ram[144], obs.st)
C22_Witness ==
  /\ obs.op = "trap" /\ obs.call = 60947 /\ obs.st = 64
  /\ obs.before.ram[144] = 66 /\ cpu.ram[144] = 66

\* the tracks alloc_next_block may look at, in the order one reversal allows:
\* from the start track away from the directory track to the end of the
\* disk, then from the other side of the directory track to the other end
UpFrom(a, b) == [i \in 1..(b - a + 1) |-> a + i - 1]
DownFrom(a, b) == [i \in 1..(a - b + 1) |-> a - i + 1]
SearchOrder(track) ==
  IF track = DIR_TRACK THEN <<track>>
  ELSE IF track > DIR_TRACK
  THEN <<track>> \o UpFrom(track + 1, MaxTrack) \o DownFrom(DIR_TRACK - 1, 1)
  ELSE <<track>> \o DownFrom(track - 1, 1) \o UpFrom(DIR_TRACK + 1, MaxTrack)
\* the places in the order whose counter is not zero
WithFree(d, order) == {i \in DOMAIN order : num_free_blocks(d, order[i]) # 0}
FirstOf(places) == CHOOSE i \in places : \A j \in places : i <= j

\* C23: alloc_next_block comes to an end for every BAM and every start: it
\* looks at the tracks of SearchOrder only, which turns round at most once;
\* when none of them has a counter other than zero it fails with DISK FULL
\* and leaves the BAM, its dirty flag and the image as they were; when one
\* has, the track it goes on with is the first such in the order.
C23_Search ==
  obs.op = "alloc_next" =>
    LET d0 == obs.before
        order == SearchOrder(obs.ts[1])
        found == WithFree(d0, order)
    IN /\ ~drive.hung
       /\ found = {} =>
            /\ obs.st = "FAIL"
            /\ drive.current_error = "DISKFULL"
            /\ drive.bam = d0.bam
            /\ drive.bam_dirty = d0.bam_dirty
            /\ drive.img = d0.img
       /\ found # {} =>
            /\ drive.current_error # "DISKFULL"
            /\ obs.st = "OK" => obs.hit[1] = order[FirstOf(found)]
            /\ obs.st = "FAIL" => drive.error_track = order[FirstOf(found)]

\* a full disk found after the search went to one end and then the other
C23_Witness ==
  /\ obs.op = "alloc_next"
  /\ obs.st = "FAIL"
  /\ obs.ts[1] = DIR_TRACK - 1
  /\ drive.current_error = "DISKFULL"
  /\ \E t \in Tracks : obs.before.bam[t].free # {}

\* C24: when alloc_next_block succeeds, the block handed back was free
\* before the call and is allocated after it, its track's counter is one
\* less, and no other bit or counter of the BAM has changed.
C24_Allocated ==
  (obs.op = "alloc_next" /\ obs.st = "OK") =>
    LET d0 == obs.before
        t == obs.hit[1]
        s == obs.hit[2]
    IN /\ is_block_free(d0, t, s)
       /\ ~is_block_free(drive, t, s)
       /\ num_free_blocks(drive, t) = num_free_blocks(d0, t) - 1
       /\ \A t2 \in DOMAIN d0.bam :
            /\ t2 # t => drive.bam[t2] = d0.bam[t2]
            /\ t2 = t => drive.bam[t2].free = d0.bam[t2].free \ {s}

\* the sector the search for a free sector starts at
StartSector(last, interleave, num) ==
  IF last + interleave < num THEN last + interleave
  ELSE IF last + interleave = num THEN 0
  ELSE last + interleave - num - 1
\* the first sector of free at or cyclically after start
CyclicFirst(free, start, num) ==
  LET k == CHOOSE k \in 0..(num - 1) :
             /\ (start + k) % num \in free
             /\ \A j \in 0..(k - 1) : (start + j) % num \notin free
  IN (start + k) % num
\* the search changed sides, so the sector it carries is 0
Reversed(start, hit) ==
  \/ start > DIR_TRACK /\ hit < DIR_TRACK
  \/ start < DIR_TRACK /\ hit > DIR_TRACK

\* C25 as stated: on the track the caller passed, the sector handed back is
\* the first free one at or cyclically after (last_sector + interleave) mod
\* sectors_on_track.
C25_ModuloStart ==
  (obs.op = "alloc_next" /\ obs.st = "OK" /\ obs.hit[1] = obs.ts[1]) =>
    LET num == num_sectors(obs.hit[1]) IN
    obs.hit[2] = CyclicFirst(obs.before.bam[obs.hit[1]].free,
                             (obs.ts[2] + obs.call) % num, num)

\* C25: the sector handed back is the first free one at or cyclically after
\* the start sector, which is last_sector + interleave when that is on the
\* track, 0 when it is the number of sectors, and otherwise one sector
\* before last_sector + interleave - sectors_on_track; last_sector is the
\* sector passed, or 0 when the search changed sides.
C25_StartSector ==
  (obs.op = "alloc_next" /\ obs.st = "OK") =>
    LET num == num_sectors(obs.hit[1])
        last == IF Reversed(obs.ts[1], obs.hit[1]) THEN 0 ELSE obs.ts[2]
    IN obs.hit[2] = CyclicFirst(obs.before.bam[obs.hit[1]].free,
                                StartSector(last, obs.call, num), num)

\* a block found after last_sector + interleave went past the end of the
\* track: the plain modulo would have given another sector
C25_Witness ==
  /\ obs.op = "alloc_next"
  /\ obs.st = "OK"
  /\ obs.hit[1] = obs.ts[1]
  /\ obs.ts[2] + obs.call > num_sectors(obs.hit[1])
  /\ obs.hit[2] # CyclicFirst(obs.before.bam[obs.hit[1]].free,
                              (obs.ts[2] + obs.call) % num_sectors(obs.hit[1]),
                              num_sectors(obs.hit[1]))

\* the track or the sector is outside the BAM
OutOfRange(track, sector) ==
  \/ track < 1 \/ track > MaxTrack
  \/ sector < 0 \/ sector >= num_sectors(track)

\* C26: free_block of a block that is free returns OK and alloc_block of a
\* block that is allocated returns NOBLOCK, and either returns ILLEGALTS for
\* a track or sector out of range; in all these cases the bitmap, the
\* counters and the dirty flag (the whole drive) stay as they were.
C26_NoChange ==
  LET d0 == obs.before
      t == obs.ts[1]
      s == obs.ts[2]
  IN /\ (obs.op \in {"alloc", "free"} /\ OutOfRange(t, s)) =>
          (obs.st = "ILLEGALTS" /\ drive = d0)
     /\ (obs.op = "free" /\ ~OutOfRange(t, s) /\ s \in d0.bam[t].free) =>
          (obs.st = "OK" /\ drive = d0)
     /\ (obs.op = "alloc" /\ ~OutOfRange(t, s) /\ s \notin d0.bam[t].free) =>
          (obs.st = "NOBLOCK" /\ drive = d0)

\* a free block freed again on a drive whose BAM was clean
C26_Witness ==
  /\ obs.op = "free"
  /\ ~OutOfRange(obs.ts[1], obs.ts[2])
  /\ obs.ts[2] \in obs.before.bam[obs.ts[1]].free
  /\ ~obs.before.bam_dirty
  /\ obs.st = "OK"

\* the blocks from (track, sector) along the links, as far as the links
\* name blocks of the image: [ok, blocks], ok when a track 0 link ends them
RECURSIVE LinkedFrom(_, _, _, _)
LinkedFrom(d, track, sector, fuel) ==
  IF track = 0 THEN [ok |-> TRUE, blocks |-> <<>>]
  ELSE IF fuel = 0 \/ ~ValidTS(d, track, sector)
  THEN [ok |-> FALSE, blocks |-> <<>>]
  ELSE LET rest == LinkedFrom(d, d.img[<<track, sector>>].t,
                              d.img[<<track, sector>>].s, fuel - 1)
       IN [ok |-> rest.ok, blocks |-> <<<<track, sector>>>> \o rest.blocks]
BlocksOf(chain) == {chain.blocks[i] : i \in DOMAIN chain.blocks}

\* C27: free_block_chain on a chain that ends with a track 0 link leaves
\* free every block of the chain and leaves every other bit of the BAM as
\* it was; each counter grows by the number of blocks of the chain on its
\* track that were allocated.
C27_FreesChain ==
  LET d0 == obs.before
      chain == LinkedFrom(d0, obs.ts[1], obs.ts[2], Cardinality(ExtTS))
  IN (obs.op = "free_chain" /\ chain.ok) =>
       /\ ~drive.hung
       /\ \A ts \in AllTS :
            is_block_free(drive, ts[1], ts[2]) =
              (ts \in BlocksOf(chain) \/ is_block_free(d0, ts[1], ts[2]))
       /\ \A t \in Tracks :
            num_free_blocks(drive, t) =
              num_free_blocks(d0, t)
              + Cardinality({ts \in BlocksOf(chain) :
                               ts[1] = t /\ ~is_block_free(d0, t, ts[2])})

\* the data a finished file holds: the bytes written, or one CR for none
FileData == IF obs.data = <<>> THEN <<CR>> ELSE obs.data
\* what the k-th read of a file holding data returns when the drive has
\* no error
ReadOf(data, k) ==
  IF k < Len(data) THEN <<ST_OK, data[k]>>
  ELSE IF k = Len(data) THEN <<ST_EOF, data[k]>>
  ELSE <<ST_READ_TIMEOUT, NOBYTE>>
\* what read i of the reads in msg returns: nothing while the drive holds
\* an error, else the next byte
Returned(data, msg, i) ==
  IF msg[i][3] # "OK" THEN <<ST_READ_TIMEOUT, NOBYTE>>
  ELSE ReadOf(data, 1 + Cardinality({j \in 1..(i - 1) : msg[j][3] = "OK"}))

\* C28: the reads of a file channel return OK with every byte of the file
\* but the last, EOF with the last byte, and READ_TIMEOUT without a byte
\* ever after; a read made while the drive holds an error returns
\* READ_TIMEOUT and takes no byte from the file.
C28_EofWithLast ==
  (Finished /\ drive.ch[0].mode = "FILE") =>
    \A i \in DOMAIN obs.msg :
      <<obs.msg[i][1], obs.msg[i][2]>> = Returned(FileData, obs.msg, i)

\* a file of more than one block read to its end and once more
C28_Witness ==
  /\ Finished /\ drive.ch[0].mode = "FILE"
  /\ Len(obs.data) > BLOCK - 2
  /\ Len(obs.msg) = Len(obs.data) + 1
  /\ obs.msg[Len(obs.data)][1] = ST_EOF
  /\ obs.msg[Len(obs.msg)] = <<ST_READ_TIMEOUT, NOBYTE, "OK">>

\* the first block of file A, as the directory on the disk names it
FirstBlockOfA ==
  LET de == AsDir(drive.img[<<DIR_TRACK, FIRST_DIR_SECTOR>>]).v[1]
  IN drive.img[<<de.track, de.sector>>]

\* C30: once a file that took no byte is closed, its only block has link
\* track 0, last-used-byte offset 2 and the byte CR at offset 2, and reading
\* it gives CR with EOF and nothing more.
C30_OneCR ==
  (Finished /\ obs.data = <<>>) =>
    /\ FirstBlockOfA.t = 0
    /\ FirstBlockOfA.s = 2
    /\ GetByte(FirstBlockOfA, 2) = CR
    /\ drive.ch[0].mode = "FILE" =>
         \A i \in DOMAIN obs.msg :
           <<obs.msg[i][1], obs.msg[i][2]>> =
             Returned(<<CR>>, obs.msg, i)

\* the empty file read to its end and once more
C30_Witness ==
  /\ Finished /\ obs.data = <<>>
  /\ drive.ch[0].mode = "FILE"
  /\ obs.msg = <<<<ST_EOF, CR, "OK">>, <<ST_READ_TIMEOUT, NOBYTE, "OK">>>>

\* C29: iec_out returns TIMEOUT and changes neither the drive nor the bus
\* unless a LISTEN 8 was answered with OK, no UNLISTEN followed it, and a
\* secondary address with the code OPEN or DATA was sent since; iec_in
\* returns TIMEOUT with the byte 0 and changes nothing unless a TALK 8 was
\* answered with OK, no UNTALK followed it, and a secondary address was
\* sent since.
C29_Framing ==
  /\ (obs.op = "out" /\ ~(obs.frame.listener /\ obs.frame.lsec)) =>
       (obs.st = ST_TIMEOUT /\ ~obs.hit)
  /\ (obs.op = "in" /\ ~(obs.frame.talker /\ obs.frame.tsec)) =>
       (obs.st = ST_TIMEOUT /\ obs.off = 0 /\ ~obs.hit)

\* C31 as stated: a block allocated by a search started off the directory
\* track is never on the directory track, and a search started on the
\* directory track hands back a block of the directory track or fails with
\* DISK FULL.
C31_DiskFullOnly ==
  obs.op = "alloc_next" =>
    /\ (obs.ts[1] # DIR_TRACK /\ obs.st = "OK") => obs.hit[1] # DIR_TRACK
    /\ obs.ts[1] = DIR_TRACK =>
         \/ obs.st = "OK" /\ obs.hit[1] = DIR_TRACK
         \/ obs.st = "FAIL" /\ drive.current_error = "DISKFULL"

\* C31: a block allocated by a search started off the directory track is
\* never on the directory track, whatever the directory track has free; a
\* search started on the directory track hands back a block of the
\* directory track that was free, or fails: with DISK FULL when the
\* directory track's counter is zero, with DIR ERROR when the counter is
\* not zero and no sector of the track is free.  A failed call allocates
\* nothing.
C31_Separation ==
  obs.op = "alloc_next" =>
    LET d0 == obs.before IN
    /\ (obs.ts[1] # DIR_TRACK /\ obs.st = "OK") => obs.hit[1] # DIR_TRACK
    /\ obs.ts[1] # DIR_TRACK => drive.bam[DIR_TRACK] = d0.bam[DIR_TRACK]
    /\ obs.ts[1] = DIR_TRACK =>
         \/ /\ obs.st = "OK"
            /\ obs.hit[1] = DIR_TRACK
            /\ is_block_free(d0, DIR_TRACK, obs.hit[2])
         \/ /\ obs.st = "FAIL"
            /\ drive.bam = d0.bam
            /\ IF num_free_blocks(d0, DIR_TRACK) = 0
               THEN drive.current_error = "DISKFULL"
               ELSE /\ drive.current_error = "DIRERROR"
                    /\ d0.bam[DIR_TRACK].free = {}

\* a data block found on the other side of the directory track, past a
\* directory track that has free blocks
C31_Witness ==
  /\ obs.op = "alloc_next"
  /\ obs.st = "OK"
  /\ obs.ts[1] = DIR_TRACK - 1
  /\ obs.hit[1] > DIR_TRACK
  /\ obs.before.bam[DIR_TRACK].free # {}
  /\ num_free_blocks(obs.before, DIR_TRACK) # 0

\* every counter of the BAM is the number of free sectors of its track
CountersRight(d) ==
  \A t \in Tracks : d.bam[t].cnt = Cardinality(d.bam[t].free)

\* C36: under a BAM whose counters are right, whenever some track other
\* than the directory track has a counter that is not zero,
\* alloc_next_block called from a start track other than the directory
\* track succeeds.
C36_Succeeds ==
  (/\ obs.op = "alloc_next"
   /\ obs.ts[1] # DIR_TRACK
   /\ CountersRight(obs.before)
   /\ \E t \in Tracks \ {DIR_TRACK} : num_free_blocks(obs.before, t) # 0)
    => obs.st = "OK"

\* C37: free_block_chain comes to an end on every chain, also on one whose
\* links run back into it and on one whose blocks are free already.
C37_Terminates ==
  obs.op = "free_chain" => ~drive.hung

\* a command that starts with U was executed
IsUser == obs.op = "command" /\ Len(obs.cmd) >= 1 /\ obs.cmd[1] = ChU
\* the drive was reset: every channel closed, every buffer free, no pending
\* command bytes, the power-up message 73
WasReset ==
  /\ drive.current_error = "STARTUP"
  /\ \A c \in 0..14 : drive.ch[c].mode = "FREE"
  /\ \A b \in Buffers : drive.buf_free[b]
  /\ drive.cmd_len = 0
\* no reset: the channels and buffers are as before and the error is err
NotReset(err) ==
  /\ drive.current_error = err
  /\ drive.ch = obs.before.ch
  /\ drive.buf_free = obs.before.buf_free

\* C32 as stated: of the commands that start with U, UI and UJ reset the
\* drive and every other one sets 03 UNIMPLEMENTED without a reset.
C32_OnlyIJ ==
  IsUser =>
    IF obs.cmd \in {<<ChU, ChI>>, <<ChU, ChJ>>} THEN WasReset
    ELSE NotReset("UNIMPLEMENTED")

\* C32: a command that starts with U is decided by the byte at index 1 of
\* its buffer: "0" leaves the drive as it is with error 00; a byte whose low
\* four bits are 9 or 10 (I, J, 9, :, Y, ...) resets the drive; every other
\* byte sets 03 UNIMPLEMENTED without a reset.
C32_UserDispatch ==
  IsUser =>
    IF obs.off = Ch0 THEN NotReset("OK")
    ELSE IF obs.off % 16 \in {9, 10} THEN WasReset
    ELSE NotReset("UNIMPLEMENTED")

\* UJ written to the command channel closed the direct-access channel
C32_Witness ==
  /\ IsUser
  /\ obs.cmd = <<ChU, ChJ>>
  /\ obs.how = "write"
  /\ obs.before.ch[2].mode = "DIRECT"
  /\ drive.ch[2].mode = "FREE"
  /\ drive.current_error = "STARTUP"

\* C40: the pending command never has more than 59 bytes; a command that
\* reaches 59 bytes and more is rejected with 32 SYNTAX ERROR; and a
\* complete command of up to 58 bytes sent to channel 15 in a frame of its
\* own is taken (not rejected) and is executed as the bytes of that frame,
\* whatever the frames before it left behind.
C40_Recovery ==
  /\ drive.cmd_len <= CMD_MAX + 1
  /\ (obs.op = "out" /\ obs.how = "data" /\ Len(obs.data) > CMD_MAX) =>
       (obs.st = ST_TIMEOUT /\ drive.current_error = "SYNTAX32")
  /\ (obs.op = "out" /\ obs.how = "data" /\ obs.eoi
      /\ Len(obs.data) <= CMD_MAX) =>
       (obs.st = ST_OK /\ obs.cmd = obs.data)

\* C39: the received name never has more than IEC_NAMEBUF_LENGTH bytes, and
\* no store of the reception, the terminating zero included, lands behind
\* the IEC_NAMEBUF_LENGTH bytes of name_buf.
C39_InsideBuffer ==
  /\ bus.name_len <= IEC_NAMEBUF_LENGTH
  /\ Len(bus.name_buf) <= IEC_NAMEBUF_LENGTH
  /\ ~bus.stray

\* the channels that hold work buffer b: in FILE or DIRECT mode with b as
\* their buffer number
Holders(d, b) ==
  {c \in Channels : d.ch[c].mode \in {"FILE", "DIRECT"} /\ d.ch[c].buf_num = b}

\* C33: a work buffer is flagged in use if and only if exactly one channel
\* in FILE or DIRECT mode has it as its buffer, so that once no channel is
\* in FILE or DIRECT mode all four buffers are free.
C33_NoLeak ==
  \A b \in Buffers : ~drive.buf_free[b] <=> Cardinality(Holders(drive, b)) = 1

\* the fifth channel found no buffer: the four are held by four channels,
\* the open failed with NO CHANNEL and its channel stayed free
C33_Witness ==
  /\ obs.op = "open"
  /\ drive.current_error = "NOCHANNEL"
  /\ drive.ch[obs.call].mode = "FREE"
  /\ \A b \in Buffers : ~drive.buf_free[b]
  /\ Cardinality({c \in Channels : drive.ch[c].mode \in {"FILE", "DIRECT"}})
       = NUM_BUFFERS

\* C38: an open of a channel 0..14 that ends with an error leaves the
\* channel's mode, the buffer pool and the BAM as they were.
C38_FailedOpen ==
  [][(obs'.op = "open" /\ drive'.current_error # "OK") =>
       /\ drive'.ch[obs'.call].mode = drive.ch[obs'.call].mode
       /\ drive'.buf_free = drive.buf_free
       /\ drive'.bam = drive.bam]_vars

\* a step taken while the image is mounted write-protected
Protected == drive.ready /\ drive.write_protected /\ ~Halted(drive)

\* C34 as stated: while the image is mounted write-protected no open, data
\* write, close, scratch, I, UJ or unmount changes a byte of the image or a
\* bit of the BAM mirror, and an open for writing and a scratch report 26
\* WRITE PROTECT.
C34_WriteProtect ==
  [][(Protected /\ obs'.op # "mount") =>
       /\ drive'.img = drive.img
       /\ drive'.bam = drive.bam
       /\ (obs'.op = "open" /\ obs'.cmd \in {<<ChC>>, <<ChAt, ChColon, ChA>>,
                                             <<ChA, ChComma, ChA>>}
           /\ drive.ch[obs'.call].mode = "FREE") =>
            drive'.current_error = "WRITEPROTECT"
       /\ (obs'.op = "command" /\ obs'.call = ChS) =>
            drive'.current_error = "WRITEPROTECT"]_vars

\* the image part of C34: no byte of the image changes
C34_ImageKept ==
  [][(Protected /\ obs'.op # "mount") => drive'.img = drive.img]_vars

\* the BAM part of C34: no bit of the BAM mirror changes
C34_BamKept ==
  [][(Protected /\ obs'.op # "mount") => drive'.bam = drive.bam]_vars

\* the directory entries in use: <<block, index>> of every entry with a
\* non-zero type byte in the blocks of the directory chain
DirFiles(d) ==
  LET blocks == BlocksOf(LinkedFrom(d, DIR_TRACK, FIRST_DIR_SECTOR,
                                    Cardinality(AllTS)))
  IN {f \in blocks \X (1..DirEntries) :
        d.img[f[1]].k = "dir" /\ d.img[f[1]].v[f[2]].type # 0}

\* the blocks on the chain of the directory entry f
FileBlocks(d, f) ==
  LET de == d.img[f[1]].v[f[2]]
  IN BlocksOf(LinkedFrom(d, de.track, de.sector, Cardinality(AllTS)))

CrossLinked(d) ==
  \E f, g \in DirFiles(d) : f # g /\ FileBlocks(d, f) \cap FileBlocks(d, g) # {}

FreeOnChain(d) ==
  \E f \in DirFiles(d) : \E b \in FileBlocks(d, f) : is_block_free(d, b[1], b[2])

\* C35 as stated: on a writable disk that was well-formed when mounted, after
\* any interleaving of open, write, close and scratch no block is on the
\* chains of two directory entries, and no block on the chain of an entry
\* with a non-zero type byte is free in the BAM.
C35_NoCrossLink ==
  (drive.ready /\ ~Halted(drive)) =>
     ~CrossLinked(drive) /\ ~FreeOnChain(drive)

\* the same with every channel closed
C35_Quiescent ==
  (drive.ready /\ ~Halted(drive) /\ \A c \in FileChannels : drive.ch[c].mode = "FREE") =>
     ~CrossLinked(drive) /\ ~FreeOnChain(drive)

\* the bytes the reads of channel 0 have returned, in order
RECURSIVE BytesOf(_)
BytesOf(msg) ==
  IF msg = <<>> THEN <<>>
  ELSE IF msg[1][2] = NOBYTE THEN BytesOf(Tail(msg))
  ELSE <<msg[1][2]>> \o BytesOf(Tail(msg))

\* the file was written and closed, opened for reading and read to EOF
ReadToEof ==
  /\ Finished /\ drive.ch[0].mode = "FILE"
  /\ \E i \in DOMAIN obs.msg : obs.msg[i][1] = ST_EOF

\* C2 as stated: the bytes read back to EOF from a file that was created,
\* written with a byte sequence of any length from 0 on and closed are the
\* bytes written.
C2_RoundTripFromZero == ReadToEof => BytesOf(obs.msg) = obs.data

\* C2: the bytes read back to EOF from a file that was created, written
\* with one or more bytes and closed are the bytes written, in their order;
\* a file that was written with no byte reads back as the one byte CR.
C2_RoundTrip ==
  ReadToEof => BytesOf(obs.msg) = IF obs.data = <<>> THEN <<CR>> ELSE obs.data

\* a file of more than one block written, closed and read back to EOF
C2_Witness ==
  /\ ReadToEof
  /\ Len(obs.data) > BLOCK - 2
  /\ BytesOf(obs.msg) = obs.data

\* C3: whatever opens, closes, reads, writes, commands, resets, mounts and
\* unmounts were made, no two channels in FILE or DIRECT mode have the same
\* work buffer.
C3_OneOwner ==
  \A b \in Buffers : Cardinality(Holders(drive, b)) <= 1

\* a file channel and a direct-access channel are open, each with a buffer
\* of its own
C3_Witness ==
  /\ drive.ch[0].mode = "FILE" /\ drive.ch[2].mode = "DIRECT"
  /\ drive.ch[0].buf_num # drive.ch[2].buf_num
  /\ ~drive.buf_free[drive.ch[0].buf_num]
  /\ ~drive.buf_free[drive.ch[2].buf_num]

\* C4: channel 15 is in COMMAND mode in every state, whatever opens,
\* closes, commands, resets, mounts and unmounts were made, and a close of
\* channel 15 leaves every other channel FREE.
C4_CommandChannel ==
  /\ drive.ch[15].mode = "COMMAND"
  /\ (obs.op = "close" /\ obs.call = 15) =>
       \A c \in Channels \ {15} : drive.ch[c].mode = "FREE"

\* channel 15 was closed while a file and a direct-access channel were open
C4_Witness ==
  /\ obs.op = "close" /\ obs.call = 15 /\ obs.hit
  /\ drive.ready
  /\ drive.ch[15].mode = "COMMAND"
  /\ drive.ch[0].mode = "FREE" /\ drive.ch[2].mode = "FREE"

\* C5: in a transaction LISTEN, OPEN, file name bytes, UNLISTEN the drive's
\* open runs exactly once, at the byte with EOI or, when no byte had EOI,
\* at the UNLISTEN.
C5_OpenOnce ==
  (obs.op = "atn" /\ Code(obs.call) = ATN_UNLISTEN /\ obs.txn = "ended"
     /\ obs.named) => obs.opens = 1

\* the data bytes of the chain from (track, sector): bytes 2..LAST of a
\* block that links on, bytes 2..(link sector) of the block that ends it
RECURSIVE StoredBytes(_, _, _, _)
StoredBytes(d, track, sector, fuel) ==
  IF track = 0 \/ fuel = 0 \/ ~ValidTS(d, track, sector) THEN <<>>
  ELSE LET blk == d.img[<<track, sector>>]
           last == IF blk.t = 0 THEN blk.s ELSE LAST
       IN [i \in 1..(last - 1) |-> GetByte(blk, i + 1)]
            \o StoredBytes(d, blk.t, blk.s, fuel - 1)

\* the data of file A as the image holds it
StoredA ==
  LET de == AsDir(drive.img[<<DIR_TRACK, FIRST_DIR_SECTOR>>]).v[1]
  IN StoredBytes(drive, de.track, de.sector, Cardinality(AllTS))

\* C6: a write to a file channel that is open for writing takes its byte
\* also when the byte carries EOI, and once the file is closed it holds
\* exactly the bytes written, the one that carried EOI included.
C6_EoiByteStored ==
  /\ (Writer(drive, 1) /\ drive.current_error = "OK") =>
       \A b \in DataBytes : d64_drive_write(drive, 1, b, TRUE).st = ST_OK
  /\ (Finished /\ obs.data # <<>>) => StoredA = obs.data

\* three bytes were written, the third with EOI, and the file was closed
C6_Witness ==
  /\ Finished
  /\ Len(obs.data) = 3 /\ obs.eoi
  /\ StoredA = obs.data

\* the directory entries in use that are not locked
Unlocked(d) == {f \in DirFiles(d) : ~TypeLocked(d.img[f[1]].v[f[2]].type)}

\* C7: on a writable image the command S:* frees every block on the chain
\* of every unlocked file, zeroes the type bytes of these files, leaves the
\* locked files alone and sets the error 01 FILES SCRATCHED with the number
\* of unlocked files.
C7_Scratch ==
  [][(obs'.op = "command" /\ obs'.call = ChS
        /\ drive.ready /\ ~drive.write_protected) =>
       /\ ~Halted(drive')
       /\ drive'.current_error = "SCRATCHED"
       /\ drive'.error_track = Cardinality(Unlocked(drive))
       /\ \A f \in Unlocked(drive) :
            /\ drive'.img[f[1]].v[f[2]].type = 0
            /\ \A b \in FileBlocks(drive, f) :
                 is_block_free(drive', b[1], b[2])
       /\ \A f \in DirFiles(drive) \ Unlocked(drive) :
            drive'.img[f[1]].v[f[2]] = drive.img[f[1]].v[f[2]]]_vars

\* the blocks on the chain of the directory entry f, in order, and whether
\* a track 0 link ends them
FileChain(d, f) ==
  LinkedFrom(d, d.img[f[1]].v[f[2]].track, d.img[f[1]].v[f[2]].sector,
             Cardinality(AllTS) + 1)

\* the chain of the entry f ends, and has no more blocks than the entry's
\* block count says
ChainWithin(d, f) ==
  /\ FileChain(d, f).ok
  /\ Len(FileChain(d, f).blocks) <= d.img[f[1]].v[f[2]].num_blocks

\* no channel holds a file
Quiescent(d) == \A c \in FileChannels : d.ch[c].mode = "FREE"

\* C8, for the closed files of a disk no channel is open on: after creates,
\* writes, closes, appends and replacements, but no scratch, on the disk
\* that was well-formed when mounted, the chain of every closed directory
\* entry reaches a track 0 link within as many blocks as the entry's block
\* count says.
C8_ChainEnds ==
  (drive.ready /\ ~Halted(drive) /\ obs.scratches = 0 /\ Quiescent(drive)) =>
     \A f \in DirFiles(drive) :
        TypeClosed(drive.img[f[1]].v[f[2]].type) => ChainWithin(drive, f)

\* the directory entry the channel c writes to
EntryOf(d, c) ==
  <<<<d.ch[c].dir_track, d.ch[c].dir_sector>>, d.ch[c].entry + 1>>

\* the channel c writes the replacement of a file: its entry names a
\* shadow chain
Replacing(d, c) ==
  /\ d.ready /\ Writer(d, c)
  /\ EntryOf(d, c) \in DirFiles(d)
  /\ d.img[EntryOf(d, c)[1]].v[EntryOf(d, c)[2]].ovr_track # 0

\* C9: while a channel writes the replacement of a file, from the open
\* with '@' on, the entry's track and sector are those of the original
\* chain, every block of the original chain is allocated, and the shadow
\* fields name a block that is not on the original chain.
C9_Staging ==
  [][\A c \in FileChannels :
       (drive.ready /\ ~Halted(drive') /\ Replacing(drive', c)
          /\ EntryOf(drive', c) \in DirFiles(drive)) =>
         LET f == EntryOf(drive', c)
             old == drive.img[f[1]].v[f[2]]
             new == drive'.img[f[1]].v[f[2]]
         IN /\ new.track = old.track /\ new.sector = old.sector
            /\ new.track # 0
            /\ \A b \in FileBlocks(drive, f) :
                 ~is_block_free(drive', b[1], b[2])
            /\ <<new.ovr_track, new.ovr_sector>> \notin FileBlocks(drive, f)]_vars

\* the step is d64_drive_close of the channel c
Closes(c) ==
  drive' = d64_drive_close(IF drive.led # "ERROR_FLASH"
                           THEN [drive EXCEPT !.led = "OFF"] ELSE drive, c)

\* C10: the close of the channel that writes the first replacement of the
\* file A, whose chain is the one block the mounted disk gave it, frees
\* that block, makes the first
\* block of the new chain the entry's track and sector, zeroes the shadow
\* fields, sets the closed bit and stores the length of the new chain as
\* the block count.
C10_Finalized ==
  [][\A c \in FileChannels :
       (~Halted(drive) /\ obs.wopens = 1 /\ obs.scratches = 0
          /\ Replacing(drive, c) /\ Closes(c)) =>
         LET f == EntryOf(drive, c)
             old == drive.img[f[1]].v[f[2]]
             new == drive'.img[f[1]].v[f[2]]
         IN /\ ~Halted(drive')
            /\ new.track = old.ovr_track /\ new.sector = old.ovr_sector
            /\ new.ovr_track = 0 /\ new.ovr_sector = 0
            /\ TypeClosed(new.type)
            /\ FileChain(drive', f).ok
            /\ new.num_blocks = Len(FileChain(drive', f).blocks)
            /\ is_block_free(drive', FileA.track, FileA.sector)]_vars


====
